---- MODULE Spec2Model ----
(***************************************************************************)
(* skills-lock: a lockfile for agent skills.                               *)
(*                                                                         *)
(* The module models                                                       *)
(*   - the lockfile store (src/src/lockfile.ts): validateLockfile,         *)
(*     writeLockfile, readLockfile over an abstract JSON document;         *)
(*   - the installer helpers (src/src/installer.ts), the resolver's        *)
(*     temporary checkouts (resolver.ts) and the scanner                   *)
(*     (src/src/scanner.ts);                                               *)
(*   - the CLI commands install and update (src/src/cli.ts) as a program   *)
(*     counter machine over the project directory (Spec);                  *)
(*   - the lockfile store called directly (SpecLockfile, SpecSort,         *)
(*     SpecValidate, SpecDiff);                                            *)
(*   - the library functions on their own: expandSource (SpecExpand),      *)
(*     findSkills (SpecFind), computeSkillHash on a directory tree         *)
(*     (SpecHash), the sidecar reader and writer (SpecSidecar).            *)
(***************************************************************************)
EXTENDS Integers, Sequences, FiniteSets, TLC

VARIABLES
    lockDisk,        \* skills.lock on disk: <<>> (ENOENT) or <<json document>>
    skillsDir,       \* .agents/skills: name -> installed copy
    tmpDirs,         \* temporary checkout directories that exist (their ids)
    tmpCount,        \* how many temporary directories mkdtemp has created
    skillsCliChecked,\* installer.ts module flag
    pc,              \* position of the running command
    cmd,             \* the running command and its options
    lockfile,        \* the command's in-memory Lockfile object
    work,            \* the entries the command's loop runs over
    startDir,        \* .agents/skills as the command found it
    installedMap,    \* the command's scan result (install)
    idx,             \* loop position over Object.entries(...)
    repoDir,         \* the temporary checkout the current step holds (<<>> if none)
    latestRef,       \* update: the upstream HEAD just resolved (<<>> if none)
    count,           \* install: count / update: updatedCount
    skipped,         \* install: skipped
    calls,           \* remover, installer and writeLockfile calls of this run
    history,         \* per processed entry: what the loop did with it
    out,             \* what the command printed last / how it ended
    lfObj,           \* lockfile store harness: object handed to writeLockfile
    lfRes,           \* lockfile store harness: outcome of the last call
    lfWritten,       \* lockfile store harness: the object the file was written from
    fnArg,           \* library call harness: the argument (or the file it works on)
    fnRes,           \* library call harness: the call made and what it returned
    report,          \* check: the lists missing, wrongRef, modified, unverified, extra
    checkout,        \* add: the clone at repoDir, <<>> or <<[tree, listing, head]>>
    pinned           \* add: resolvedSource, ref and skillPath

vars == <<lockDisk, skillsDir, tmpDirs, tmpCount, skillsCliChecked, pc, cmd,
          lockfile, work, startDir, installedMap, idx, repoDir, latestRef, count, skipped,
          calls, history, out, lfObj, lfRes, lfWritten, fnArg, fnRes,
          report, checkout, pinned>>

cliVars == <<skillsDir, tmpDirs, tmpCount, skillsCliChecked, pc, cmd,
             lockfile, work, startDir, installedMap, idx, repoDir, latestRef, count, skipped,
             calls, history, out, report, checkout, pinned>>

---------------------------------------------------------------------------
(* JavaScript values.  A scalar is a record [t, v]: t is the typeof-like   *)
(* tag, v the payload as a tuple (a string is the tuple of its             *)
(* characters).                                                            *)

Undef == [t |-> "undefined", v |-> <<>>]
Null == [t |-> "null", v |-> <<>>]
Num(n) == [t |-> "number", v |-> <<n>>]
Str(s) == [t |-> "string", v |-> s]

IsString(x) == x.t = "string"

\* x === 1
IsOne(x) == x.t = "number" /\ x.v = <<1>>

\* JavaScript truthiness of a scalar (entry.integrity && ...)
Truthy(x) ==
    CASE x.t = "string" -> x.v # <<>>
      [] x.t = "number" -> x.v # <<0>>
      [] OTHER -> FALSE

Rep(c, n) == [i \in 1..n |-> c]

ShaLen == 40

HexLower == {"0", "1", "2", "3", "4", "5", "6", "7", "8", "9",
             "a", "b", "c", "d", "e", "f"}

\* the lowercase-only pattern also takes A-F
IsFullSha_AnyCase(s) ==
    Len(s) = ShaLen /\ \A i \in 1..Len(s) : s[i] \in HexLower \cup {"A", "B", "C", "D", "E", "F"}

\* /^[0-9a-f]{40}$/.test(ref)
IsFullSha(s) == Len(s) = ShaLen /\ \A i \in 1..Len(s) : s[i] \in HexLower

SHA_A == Rep("a", ShaLen)
SHA_B == Rep("b", ShaLen)
SHA_C == Rep("c", ShaLen)

---------------------------------------------------------------------------
(* The in-memory lockfile object.                                          *)
(*   data    = [t, version, skills]                                        *)
(*   skills  = [t, ents]   ents: sequence of [name, entry] in property     *)
(*                         order, names distinct                           *)
(*   entry   = [t, source, path, ref, integrity]                           *)
(* t is "object" for an object; any other tag stands for a value of that   *)
(* type in the same place (null, a string, ...).                           *)

Entry(source, path, ref, integrity) ==
    [t |-> "object", source |-> source, path |-> path, ref |-> ref,
     integrity |-> integrity]

NonObjectEntry(tag) ==
    [t |-> tag, source |-> Undef, path |-> Undef, ref |-> Undef,
     integrity |-> Undef]

Skills(ents) == [t |-> "object", ents |-> ents]

MkLockfile(version, skills) ==
    [t |-> "object", version |-> version, skills |-> skills]

Names(ents) == {ents[i].name : i \in 1..Len(ents)}

IndexOf(ents, name) ==
    IF name \in Names(ents)
    THEN CHOOSE i \in 1..Len(ents) : ents[i].name = name
    ELSE 0

\* typeof x === "object" && x !== null
IsNonNullObject(x) == x.t \in {"object", "array"}

OK == <<>>

REQUIRED == <<"source", "path", "ref">>

Field(entry, f) ==
    CASE f = "source" -> entry.source
      [] f = "path" -> entry.path
      [] f = "ref" -> entry.ref
      [] f = "integrity" -> entry.integrity

\* `${x}`: the text a template literal puts in place of a scalar, as a
\* tuple of pieces of text
TemplateLiteral(x) ==
    CASE x.t = "string" -> x.v
      [] x.t = "number" -> <<ToString(x.v[1])>>
      [] x.t = "boolean" -> <<ToString(x.v[1])>>
      [] OTHER -> <<x.t>>

\* the checks on the fields start at path
FirstBadField_SkipSource(entry) ==
    LET bad == {i \in 2..Len(REQUIRED) : ~IsString(Field(entry, REQUIRED[i]))}
    IN IF bad = {} THEN 0 ELSE CHOOSE i \in bad : \A j \in bad : i <= j

\* lockfile.ts 75-81: the position in REQUIRED of the first field that is
\* not a string, 0 if all are strings
FirstBadField(entry) ==
    LET bad == {i \in 1..Len(REQUIRED) : ~IsString(Field(entry, REQUIRED[i]))}
    IN IF bad = {} THEN 0 ELSE CHOOSE i \in bad : \A j \in bad : i <= j

\* lockfile.ts 68-88: the checks on one entry, first violation wins.  An
\* error is the text of its message, as a tuple of pieces.
ValidateEntry(name, entry) ==
    IF ~IsNonNullObject(entry)
    THEN <<"Skill '", name, "' must be an object">>
    ELSE IF FirstBadField(entry) # 0
         THEN <<"Skill '", name, "' missing or invalid field '",
                REQUIRED[FirstBadField(entry)], "'">>
         ELSE IF ~IsFullSha(entry.ref.v)
              THEN <<"Skill '", name, "' has invalid ref '">> \o entry.ref.v
                   \o <<"' - must be a full 40-character commit SHA">>
              ELSE OK

RECURSIVE ValidateEntries(_)
ValidateEntries(ents) ==
    IF ents = <<>>
    THEN OK
    ELSE LET e == ValidateEntry(Head(ents).name, Head(ents).entry)
         IN IF e # OK THEN e ELSE ValidateEntries(Tail(ents))

\* lockfile.ts 50-90: OK, or the message of the error thrown
validateLockfile(data) ==
    IF ~IsNonNullObject(data)
    THEN <<"Lockfile must be a JSON object">>
    ELSE IF ~IsOne(data.version)
         THEN <<"Unsupported lockfile version: ">> \o TemplateLiteral(data.version)
         ELSE IF ~IsNonNullObject(data.skills)
              THEN <<"Lockfile must have a 'skills' object">>
              ELSE ValidateEntries(data.skills.ents)

---------------------------------------------------------------------------
(* Property order of a JavaScript object.                                  *)

\* the array index a property name denotes (<<>> when it denotes none): an
\* object lists its array-index properties first, in ascending numeric
\* order, and after them the other string keys in insertion order
ArrayIndex(name) ==
    CASE name = "10" -> <<10>>
      [] name = "2" -> <<2>>
      [] OTHER -> <<>>

RECURSIVE InsertByIndex(_, _)
InsertByIndex(e, sorted) ==
    IF sorted = <<>>
    THEN <<e>>
    ELSE IF ArrayIndex(e.name)[1] < ArrayIndex(Head(sorted).name)[1]
         THEN <<e>> \o sorted
         ELSE <<Head(sorted)>> \o InsertByIndex(e, Tail(sorted))

RECURSIVE SortByIndex(_)
SortByIndex(ents) ==
    IF ents = <<>>
    THEN <<>>
    ELSE InsertByIndex(Head(ents), SortByIndex(Tail(ents)))

IsIndexKey(e) == ArrayIndex(e.name) # <<>>

IsStringKey(e) == ArrayIndex(e.name) = <<>>

\* the own properties of the object built by defining pairs one after the
\* other, in the order the object enumerates them
OwnPropertyOrder(pairs) ==
    SortByIndex(SelectSeq(pairs, IsIndexKey)) \o SelectSeq(pairs, IsStringKey)

\* Object.fromEntries(pairs), the keys of pairs being distinct
ObjectFromEntries(pairs) == Skills(OwnPropertyOrder(pairs))

---------------------------------------------------------------------------
(* JSON documents: what JSON.stringify writes and JSON.parse reads.        *)
(* A node is [t, v, members]; an object node carries its members as a      *)
(* sequence of [k, val] in text order, a scalar node its payload in v.     *)

JScalar(x) == [t |-> x.t, v |-> x.v, members |-> <<>>]
JObject(members) == [t |-> "object", v |-> <<>>, members |-> members]
Member(k, val) == [k |-> k, val |-> val]

ENTRY_FIELDS == <<"source", "path", "ref", "integrity">>

RECURSIVE StringifyFields(_, _)
\* JSON.stringify of an entry: a property whose value is undefined is left out
StringifyFields(entry, fields) ==
    IF fields = <<>>
    THEN <<>>
    ELSE LET x == Field(entry, Head(fields))
             rest == StringifyFields(entry, Tail(fields))
         IN IF x.t = "undefined"
            THEN rest
            ELSE <<Member(Head(fields), JScalar(x))>> \o rest

StringifyEntry(entry) ==
    IF entry.t = "object"
    THEN JObject(StringifyFields(entry, ENTRY_FIELDS))
    ELSE [t |-> entry.t, v |-> <<>>, members |-> <<>>]

JsonStringify(data) ==
    JObject(<<Member("version", JScalar(data.version)),
              Member("skills",
                     JObject([i \in 1..Len(data.skills.ents) |->
                                Member(data.skills.ents[i].name,
                                       StringifyEntry(data.skills.ents[i].entry))]))>>)

\* the value of property k of a parsed object: the last member named k wins
Get(node, k) ==
    LET hits == {i \in 1..Len(node.members) : node.members[i].k = k}
    IN IF node.t # "object" \/ hits = {}
       THEN [t |-> "undefined", v |-> <<>>, members |-> <<>>]
       ELSE node.members[CHOOSE i \in hits : \A j \in hits : j <= i].val

ScalarOf(node) == [t |-> node.t, v |-> node.v]

ParseEntry(node) ==
    [t |-> node.t,
     source |-> ScalarOf(Get(node, "source")),
     path |-> ScalarOf(Get(node, "path")),
     ref |-> ScalarOf(Get(node, "ref")),
     integrity |-> ScalarOf(Get(node, "integrity"))]

RECURSIVE ParseMembers(_)
\* the properties of a parsed object, in order; a repeated key keeps its
\* first position and takes the last value
ParseMembers(members) ==
    IF members = <<>>
    THEN <<>>
    ELSE LET init == ParseMembers(SubSeq(members, 1, Len(members) - 1))
             last == members[Len(members)]
             e == [name |-> last.k, entry |-> ParseEntry(last.val)]
         IN IF last.k \in Names(init)
            THEN [init EXCEPT ![IndexOf(init, last.k)] = e]
            ELSE Append(init, e)

JsonParse(doc) ==
    [t |-> doc.t,
     version |-> ScalarOf(Get(doc, "version")),
     skills |-> [t |-> Get(doc, "skills").t,
                 ents |-> OwnPropertyOrder(ParseMembers(Get(doc, "skills").members))]]

---------------------------------------------------------------------------
(* Name order: a.localeCompare(b) on the skill names of the model.         *)

NameOrder == <<"10", "2", "csv", "pdf", "xlsx">>

Rank(n) == CHOOSE i \in 1..Len(NameOrder) : NameOrder[i] = n

localeCompare(a, b) ==
    IF Rank(a) < Rank(b) THEN -1 ELSE IF Rank(a) > Rank(b) THEN 1 ELSE 0

RECURSIVE InsertSorted(_, _)
InsertSorted(e, sorted) ==
    IF sorted = <<>>
    THEN <<e>>
    ELSE IF localeCompare(e.name, Head(sorted).name) < 0
         THEN <<e>> \o sorted
         ELSE <<Head(sorted)>> \o InsertSorted(e, Tail(sorted))

RECURSIVE SortByName(_)
\* Object.entries(skills).sort(([a], [b]) => a.localeCompare(b)), stable
SortByName(ents) ==
    IF ents = <<>>
    THEN <<>>
    ELSE InsertSorted(ents[Len(ents)], SortByName(SubSeq(ents, 1, Len(ents) - 1)))

\* the sorted copy is rebuilt from source, path and ref alone
SortedLockfile_WithoutIntegrity(lf) ==
    MkLockfile(lf.version,
               Skills([i \in 1..Len(lf.skills.ents) |->
                         [name |-> SortByName(lf.skills.ents)[i].name,
                          entry |-> [SortByName(lf.skills.ents)[i].entry
                                        EXCEPT !.integrity = Undef]]]))

\* lockfile.ts 35-41: the object that is serialized
SortedLockfile(lf) ==
    MkLockfile(lf.version, ObjectFromEntries(SortByName(lf.skills.ents)))

\* nothing reaches the disk
writeLockfile_NoWrite(lf, disk) == [err |-> validateLockfile(lf), disk |-> disk]

\* the object is serialized without being validated
writeLockfile_NoValidate(lf, disk) ==
    [err |-> OK, disk |-> <<JsonStringify(SortedLockfile(lf))>>]

\* lockfile.ts 29-44: [err, disk]: the error thrown (OK if none) and the
\* file afterwards
writeLockfile(lf, disk) ==
    LET err == validateLockfile(lf)
    IN IF err # OK
       THEN [err |-> err, disk |-> disk]
       ELSE [err |-> OK, disk |-> <<JsonStringify(SortedLockfile(lf))>>]

NoLockfile == [t |-> "null", version |-> Undef, skills |-> [t |-> "undefined", ents |-> <<>>]]

\* lockfile.ts 10-24: [err, value]: value is NoLockfile (null) on ENOENT
readLockfile(disk) ==
    IF disk = <<>>
    THEN [err |-> OK, value |-> NoLockfile]
    ELSE LET parsed == JsonParse(disk[1])
             err == validateLockfile(parsed)
         IN IF err # OK
            THEN [err |-> err, value |-> NoLockfile]
            ELSE [err |-> OK, value |-> parsed]

---------------------------------------------------------------------------
(* The project directory.                                                  *)
(* skillsDir[n] = [installed, content, meta]: content identifies the bytes *)
(* of the skill's files (0 when absent), meta is the .skills-lock sidecar: *)
(* <<>> when there is none, else <<[ref, integrity]>>.                     *)

SkillNames == {"pdf", "xlsx"}

NumContents == 2

Contents == 1..NumContents

NotInstalled == [installed |-> FALSE, content |-> 0, meta |-> <<>>]

Installed(c, meta) == [installed |-> TRUE, content |-> c, meta |-> meta]

SkillMetadata(ref, integrity) == [ref |-> ref, integrity |-> integrity]

\* installer.ts 15-37, over abstract contents: the digest is a function of
\* the files' bytes alone; the sidecar is no part of content
computeSkillHash(dir) == Str(<<"sha256:", ToString(dir.content)>>)

\* the sidecar keeps the ref it had
writeSkillMetadata_StaleRef(dir, ref, integrity) ==
    [dir EXCEPT !.meta = <<SkillMetadata(Str(SHA_B), integrity)>>]

\* installer.ts 42-53
writeSkillMetadata(dir, ref, integrity) ==
    [dir EXCEPT !.meta = <<SkillMetadata(ref, integrity)>>]

\* scanner.ts 19-68: one record per directory under the skill directories;
\* the records carry name and diskPath (and hasSkillMd, which no caller
\* reads) and nothing else
scanInstalledSkills(dirs) ==
    [n \in {m \in DOMAIN dirs : dirs[m].installed} |->
        [name |-> n, diskPath |-> <<".agents/skills", n>>]]

\* installedSkill.metadata: undefined (<<>>) when the record has no such
\* property
MetadataOf(installedSkill) ==
    IF "metadata" \in DOMAIN installedSkill
    THEN installedSkill.metadata
    ELSE <<>>

---------------------------------------------------------------------------
(* cli.ts 66-89: what the install loop decides for one entry.              *)

Classify(force, isInstalled, meta, entry) ==
    IF ~force /\ isInstalled
    THEN IF meta = <<>>
         THEN "reinstall: no metadata"
         ELSE IF meta[1].ref # entry.ref
              THEN "reinstall: wrong ref"
              ELSE IF Truthy(entry.integrity) /\ meta[1].integrity # entry.integrity
                   THEN "reinstall: modified"
                   ELSE "skip"
    ELSE IF force /\ isInstalled
         THEN "reinstall: forced"
         ELSE "install"

\* the no-metadata branch forgets the remover
NeedsRemove_NotForUnmanaged(decision) ==
    decision \in {"reinstall: wrong ref", "reinstall: modified", "reinstall: forced"}

\* the forced branch forgets the remover
NeedsRemove_NotForForced(decision) ==
    decision \in {"reinstall: no metadata", "reinstall: wrong ref", "reinstall: modified"}

\* the branches of cli.ts 68-89 that await removeSkill first
NeedsRemove(decision) ==
    decision \in {"reinstall: no metadata", "reinstall: wrong ref",
                  "reinstall: modified", "reinstall: forced"}

---------------------------------------------------------------------------
(* Initial states of a CLI run: a lockfile as the tool writes it (sorted   *)
(* by name, valid), and a project directory in any condition.              *)

SRC == Str(<<"https://github.com/anthropics/skills.git">>)

PathOf(n) == Str(<<"skills/", n>>)

\* the digest string of a directory whose content is c
H(c) == computeSkillHash(Installed(c, <<>>))

SortedNames(S) ==
    CHOOSE q \in [1..Cardinality(S) -> S] :
        \A i, j \in 1..Cardinality(S) : i < j => Rank(q[i]) < Rank(q[j])

InitEntries(n) ==
    {Entry(SRC, PathOf(n), Str(ref), integrity) :
        ref \in {SHA_A, SHA_B}, integrity \in {Undef, H(1)}}

InitLockfiles ==
    UNION {
        {MkLockfile(Num(1),
                    Skills([i \in 1..Cardinality(S) |->
                              [name |-> SortedNames(S)[i],
                               entry |-> f[SortedNames(S)[i]]]])) :
            f \in {g \in [S -> UNION {InitEntries(n) : n \in S}] :
                     \A n \in S : g[n] \in InitEntries(n)}}
        : S \in SUBSET SkillNames }

\* an installed copy: installed and untouched, with a sidecar of another
\* ref or another hash, edited after it was installed, or put there by
\* another tool (no sidecar)
InitCopies ==
    {Installed(1, <<>>),
     Installed(1, <<SkillMetadata(Str(SHA_A), H(1))>>),
     Installed(1, <<SkillMetadata(Str(SHA_B), H(1))>>),
     Installed(2, <<SkillMetadata(Str(SHA_A), H(2))>>),
     Installed(2, <<SkillMetadata(Str(SHA_A), H(1))>>)}

InitDirs == [SkillNames -> {NotInstalled} \cup InitCopies]

NoResult == [op |-> "none", err |-> OK, before |-> <<>>, value |-> NoLockfile]

NoCmd == [name |-> "none", force |-> FALSE, skill |-> ""]

Running == [msg |-> "", code |-> 0]

NoArg == <<>>

\* cli.ts 260-264: the five lists of check, empty
NoReport == [missing |-> <<>>, wrongRef |-> <<>>, modified |-> <<>>,
             unverified |-> <<>>, extra |-> <<>>]

\* cli.ts 132-136: resolvedSource, ref, skillPath before they are assigned
NoPin == [source |-> <<>>, ref |-> <<>>, path |-> <<>>]

NoCall == [op |-> "none", value |-> <<>>]

InitCLI ==
    /\ lockDisk \in {<<>>} \cup {<<JsonStringify(lf)>> : lf \in InitLockfiles}
    /\ skillsDir \in InitDirs
    /\ tmpDirs = {}
    /\ tmpCount = 0
    /\ skillsCliChecked = FALSE
    /\ pc = "idle"
    /\ cmd = NoCmd
    /\ lockfile = NoLockfile
    /\ work = <<>>
    /\ startDir = skillsDir
    /\ installedMap = <<>>
    /\ idx = 1
    /\ repoDir = <<>>
    /\ latestRef = <<>>
    /\ count = 0
    /\ skipped = 0
    /\ calls = <<>>
    /\ history = <<>>
    /\ out = Running
    /\ report = NoReport
    /\ checkout = <<>>
    /\ pinned = NoPin
    /\ lfObj = NoLockfile
    /\ lfRes = NoResult
    /\ lfWritten = NoLockfile
    /\ fnArg = NoArg
    /\ fnRes = NoCall

---------------------------------------------------------------------------
(* Helpers of the command machine.                                         *)

\* the error is reported and the loop goes on with the same entry
Die_AndRetry(msg) ==
    /\ pc' = "classify"
    /\ out' = [msg |-> msg, code |-> 1]

\* cli.ts 13-16, 22-34: print the message and exit with code 1
Die(msg) ==
    /\ pc' = "failed"
    /\ out' = [msg |-> msg, code |-> 1]

\* the record of a writeLockfile call that wrote the file
WriteCall(name) == [op |-> "writeLockfile", name |-> name, ref |-> Undef, ok |-> TRUE]

CurName == work[idx].name

CurEntry == work[idx].entry

\* update hands the installer the pinned ref
CurRef_Pinned == CurEntry.ref

\* the ref handed to installSkill: cli.ts 91 (install), 229 (update)
CurRef == IF cmd.name = "update" THEN Str(latestRef[1]) ELSE CurEntry.ref

\* installer.ts 83-99 as the first step of removeSkill / installSkill:
\* the outcomes the availability check adds while the flag is unset
CliOutcomes == IF skillsCliChecked THEN {} ELSE {"cli missing"}

---------------------------------------------------------------------------
(* install (cli.ts 49-112)                                                 *)

\* cli.ts 50-63
StartInstall ==
    /\ pc = "idle"
    /\ \E force \in BOOLEAN :
        LET r == readLockfile(lockDisk)
        IN /\ cmd' = [name |-> "install", force |-> force, skill |-> ""]
           /\ IF r.err # OK
              THEN Die("invalid lockfile")
                   /\ UNCHANGED <<lockfile, work, installedMap>>
              ELSE IF r.value = NoLockfile
                   THEN Die("No skills.lock found")
                        /\ UNCHANGED <<lockfile, work, installedMap>>
                   ELSE IF r.value.skills.ents = <<>>
                        THEN /\ pc' = "done"
                             /\ out' = [msg |-> "No skills in lockfile.", code |-> 0]
                             /\ UNCHANGED <<lockfile, work, installedMap>>
                        ELSE /\ pc' = "classify"
                             /\ out' = Running
                             /\ lockfile' = r.value
                             /\ work' = r.value.skills.ents
                             /\ installedMap' = scanInstalledSkills(skillsDir)
    /\ UNCHANGED <<lockDisk, skillsDir, tmpDirs, tmpCount, skillsCliChecked,
                   startDir, idx, repoDir, latestRef, count, skipped, calls,
                   history, lfObj, lfRes, lfWritten, fnArg, fnRes,
                   report, checkout, pinned>>

\* the decision of cli.ts 66-89 for the current entry
CurDecision ==
    LET isInstalled == CurName \in DOMAIN installedMap
        meta == IF isInstalled THEN MetadataOf(installedMap[CurName]) ELSE <<>>
    IN Classify(cmd.force, isInstalled, meta, CurEntry)

\* cli.ts 65-83: evaluate the conditions; the skip branch runs to `continue`
ClassifyEntry ==
    /\ pc = "classify"
    /\ idx <= Len(work)
    /\ IF CurDecision = "skip"
       THEN /\ out' = [msg |-> "already installed", code |-> 0]
            /\ skipped' = skipped + 1
            /\ idx' = idx + 1
            /\ history' = Append(history, [name |-> CurName, did |-> "skipped"])
            /\ pc' = pc
       ELSE /\ pc' = "begin"
            /\ UNCHANGED <<out, skipped, idx, history>>
    /\ UNCHANGED <<lockDisk, skillsDir, tmpDirs, tmpCount, skillsCliChecked, cmd,
                   lockfile, work, startDir, installedMap, repoDir, latestRef,
                   count, calls, lfObj, lfRes, lfWritten, fnArg, fnRes,
                   report, checkout, pinned>>

\* cli.ts 71, 74, 77, 85, 88: the branch announces itself, then awaits the
\* remover (72, 75, 78, 86) or falls through to installSkill (91)
BeginReinstall ==
    /\ pc = "begin"
    /\ out' = [msg |-> CurDecision, code |-> 0]
    /\ pc' = IF NeedsRemove(CurDecision) THEN "remove" ELSE "install"
    /\ UNCHANGED <<lockDisk, skillsDir, tmpDirs, tmpCount, skillsCliChecked, cmd,
                   lockfile, work, startDir, installedMap, idx, repoDir,
                   latestRef, count, skipped, calls, history, lfObj, lfRes, lfWritten, fnArg, fnRes,
                   report, checkout, pinned>>

\* installer.ts 145-152: removeSkill(name)
RemoveSkill ==
    /\ pc = "remove"
    /\ \E o \in {"ok", "remove failed"} \cup CliOutcomes :
        IF o = "cli missing"
        THEN /\ Die("The 'skills' CLI is not available")
             /\ UNCHANGED <<skillsDir, skillsCliChecked, calls>>
        ELSE /\ skillsCliChecked' = TRUE
             /\ calls' = Append(calls, [op |-> "remove", name |-> CurName,
                                        ref |-> Undef, ok |-> (o = "ok")])
             /\ IF o = "ok"
                THEN /\ skillsDir' = [skillsDir EXCEPT ![CurName] = NotInstalled]
                     /\ pc' = "install"
                     /\ out' = out
                ELSE /\ Die("remove failed")
                     /\ skillsDir' = skillsDir
    /\ UNCHANGED <<lockDisk, tmpDirs, tmpCount, cmd, lockfile, work, startDir,
                   installedMap, idx, repoDir, latestRef, count, skipped,
                   history, lfObj, lfRes, lfWritten, fnArg, fnRes,
                   report, checkout, pinned>>

\* installer.ts 114-116 with resolver.ts 81-93: checkSkillsCli, then
\* cloneAtRef: mkdtemp, clone, checkout
InstallSkillClone ==
    /\ pc = "install"
    /\ \E o \in {"ok", "clone failed", "checkout failed"} \cup CliOutcomes :
        IF o = "cli missing"
        THEN /\ Die("The 'skills' CLI is not available")
             /\ UNCHANGED <<skillsCliChecked, tmpDirs, tmpCount, repoDir>>
        ELSE /\ skillsCliChecked' = TRUE
             /\ tmpCount' = tmpCount + 1
             /\ tmpDirs' = tmpDirs \cup {tmpCount + 1}
             /\ IF o = "ok"
                THEN /\ repoDir' = <<tmpCount + 1>>
                     /\ pc' = "exec"
                     /\ out' = out
                ELSE /\ Die(o)
                     /\ repoDir' = repoDir
    /\ UNCHANGED <<lockDisk, skillsDir, cmd, lockfile, work, startDir,
                   installedMap, idx, latestRef, count, skipped, calls,
                   history, lfObj, lfRes, lfWritten, fnArg, fnRes,
                   report, checkout, pinned>>

\* the checkout is left behind
cleanupClone_Keeps(dirs, dir) == dirs

\* resolver.ts 98-100
cleanupClone(dirs, dir) == dirs \ {dir}

\* installer.ts 117-130: inside try: access SKILL.md, run the external
\* installer; finally: cleanupClone
InstallSkillRun ==
    /\ pc = "exec"
    /\ \E o \in {"no SKILL.md", "install failed", "ok"}, c \in Contents :
        /\ IF o = "no SKILL.md"
           THEN /\ Die("no SKILL.md at the pinned path")
                /\ UNCHANGED <<skillsDir, calls>>
           ELSE /\ calls' = Append(calls, [op |-> "install", name |-> CurName,
                                           ref |-> CurRef, ok |-> (o = "ok")])
                /\ IF o = "ok"
                   THEN /\ skillsDir' = [skillsDir EXCEPT ![CurName] = Installed(c, <<>>)]
                        /\ pc' = "hash"
                        /\ out' = out
                   ELSE /\ Die("install failed")
                        /\ skillsDir' = skillsDir
        /\ tmpDirs' = cleanupClone(tmpDirs, repoDir[1])
        /\ repoDir' = <<>>
    /\ UNCHANGED <<lockDisk, tmpCount, skillsCliChecked, cmd, lockfile, work,
                   startDir, installedMap, idx, latestRef, count, skipped,
                   history, lfObj, lfRes, lfWritten, fnArg, fnRes,
                   report, checkout, pinned>>

\* the comparison with the pinned integrity is left out
IntegrityMismatch_Never(entry, computedIntegrity) == FALSE

\* cli.ts 95: entry.integrity && computedIntegrity !== entry.integrity
IntegrityMismatch(entry, computedIntegrity) ==
    Truthy(entry.integrity) /\ computedIntegrity # entry.integrity

\* installer.ts 19, 24, 29 and 48: the file system calls of computeSkillHash
\* (readdir, stat, readFile) and of writeSkillMetadata (writeFile) may throw
FsOutcomes == {"ok", "hash failed", "sidecar write failed"}

\* cli.ts 93-102
VerifyAndRecord ==
    /\ pc = "hash"
    /\ cmd.name = "install"
    /\ \E o \in FsOutcomes :
        LET computedIntegrity == computeSkillHash(skillsDir[CurName])
        IN IF o = "hash failed"
           THEN /\ Die(o)
                /\ UNCHANGED <<skillsDir, count, idx, history>>
           ELSE IF IntegrityMismatch(CurEntry, computedIntegrity)
           THEN /\ Die("Integrity check failed")
                /\ UNCHANGED <<skillsDir, count, idx, history>>
           ELSE IF o = "sidecar write failed"
           THEN /\ Die(o)
                /\ UNCHANGED <<skillsDir, count, idx, history>>
           ELSE /\ skillsDir' = [skillsDir EXCEPT ![CurName] =
                                   writeSkillMetadata(@, CurEntry.ref, computedIntegrity)]
                /\ count' = count + 1
                /\ idx' = idx + 1
                /\ history' = Append(history, [name |-> CurName, did |-> "installed"])
                /\ pc' = "classify"
                /\ out' = out
    /\ UNCHANGED <<lockDisk, tmpDirs, tmpCount, skillsCliChecked, cmd, lockfile,
                   work, startDir, installedMap, repoDir, latestRef, skipped,
                   calls, lfObj, lfRes, lfWritten, fnArg, fnRes,
                   report, checkout, pinned>>

\* cli.ts 105-111
FinishInstall ==
    /\ pc = "classify"
    /\ idx > Len(work)
    /\ pc' = "done"
    /\ out' = [msg |-> IF count = 0 /\ skipped > 0
                       THEN "All skills verified."
                       ELSE IF count = 0
                            THEN "No skills to install."
                            ELSE "Installed skill(s).",
               code |-> 0]
    /\ UNCHANGED <<lockDisk, skillsDir, tmpDirs, tmpCount, skillsCliChecked, cmd,
                   lockfile, work, startDir, installedMap, idx, repoDir,
                   latestRef, count, skipped, calls, history, lfObj, lfRes, lfWritten, fnArg, fnRes,
                   report, checkout, pinned>>

---------------------------------------------------------------------------
(* update (cli.ts 195-247)                                                 *)

UpstreamRefs == {SHA_A, SHA_B, SHA_C}

\* lockfile.skills[name] = entry: an existing key keeps its place
SetEntry(ents, name, entry) ==
    IF name \in Names(ents)
    THEN [ents EXCEPT ![IndexOf(ents, name)] = [name |-> name, entry |-> entry]]
    ELSE Append(ents, [name |-> name, entry |-> entry])

\* cli.ts 196-207
StartUpdate ==
    /\ pc = "idle"
    /\ \E skill \in SkillNames \cup {""} :
        LET r == readLockfile(lockDisk)
            ents == r.value.skills.ents
        IN /\ cmd' = [name |-> "update", force |-> FALSE, skill |-> skill]
           /\ IF r.err # OK
              THEN Die("invalid lockfile") /\ UNCHANGED <<lockfile, work>>
              ELSE IF r.value = NoLockfile
                   THEN Die("No skills.lock found") /\ UNCHANGED <<lockfile, work>>
                   ELSE IF skill # "" /\ skill \notin Names(ents)
                        THEN Die("Skill not found in skills.lock")
                             /\ UNCHANGED <<lockfile, work>>
                        ELSE /\ pc' = "resolve"
                             /\ out' = Running
                             /\ lockfile' = r.value
                             /\ work' = IF skill # ""
                                        THEN <<ents[IndexOf(ents, skill)]>>
                                        ELSE ents
    /\ UNCHANGED <<lockDisk, skillsDir, tmpDirs, tmpCount, skillsCliChecked,
                   startDir, installedMap, idx, repoDir, latestRef, count,
                   skipped, calls, history, lfObj, lfRes, lfWritten, fnArg, fnRes,
                   report, checkout, pinned>>

\* cli.ts 212 with resolver.ts 59-74: resolveRepo: mkdtemp, shallow clone
UpdateResolveRepo ==
    /\ pc = "resolve"
    /\ idx <= Len(work)
    /\ tmpCount' = tmpCount + 1
    /\ tmpDirs' = tmpDirs \cup {tmpCount + 1}
    /\ \E o \in {"ok", "clone failed"} :
        IF o = "ok"
        THEN /\ repoDir' = <<tmpCount + 1>>
             /\ pc' = "resolveRef"
             /\ out' = [msg |-> "Checking", code |-> 0]
        ELSE /\ Die(o)
             /\ repoDir' = repoDir
    /\ UNCHANGED <<lockDisk, skillsDir, skillsCliChecked, cmd, lockfile, work,
                   startDir, installedMap, idx, latestRef, count, skipped,
                   calls, history, lfObj, lfRes, lfWritten, fnArg, fnRes,
                   report, checkout, pinned>>

\* cli.ts 213-225 with resolver.ts 105-114: resolveRef inside try, cleanupClone
\* in finally, then the comparison with entry.ref
UpdateResolveRef ==
    /\ pc = "resolveRef"
    /\ tmpDirs' = cleanupClone(tmpDirs, repoDir[1])
    /\ repoDir' = <<>>
    /\ \E o \in {"ok", "no commits"}, r \in UpstreamRefs :
        IF o = "no commits"
        THEN /\ Die("No commits found")
             /\ UNCHANGED <<latestRef, idx, history>>
        ELSE IF Str(r) = CurEntry.ref
             THEN /\ out' = [msg |-> "already up to date", code |-> 0]
                  /\ history' = Append(history, [name |-> CurName, did |-> "up to date"])
                  /\ idx' = idx + 1
                  /\ pc' = "resolve"
                  /\ latestRef' = <<>>
             ELSE /\ out' = [msg |-> "updating", code |-> 0]
                  /\ latestRef' = <<r>>
                  /\ pc' = "remove"
                  /\ UNCHANGED <<idx, history>>
    /\ UNCHANGED <<lockDisk, skillsDir, tmpCount, skillsCliChecked, cmd,
                   lockfile, work, startDir, installedMap, count, skipped,
                   calls, lfObj, lfRes, lfWritten, fnArg, fnRes,
                   report, checkout, pinned>>

\* cli.ts 231-235: hash, sidecar, and the in-memory entry
UpdateRecord ==
    /\ pc = "hash"
    /\ cmd.name = "update"
    /\ \E o \in FsOutcomes :
        LET integrity == computeSkillHash(skillsDir[CurName])
        IN IF o # "ok"
           THEN /\ Die(o)
                /\ UNCHANGED <<skillsDir, lockfile>>
           ELSE /\ skillsDir' = [skillsDir EXCEPT ![CurName] =
                                   writeSkillMetadata(@, Str(latestRef[1]), integrity)]
                /\ lockfile' = [lockfile EXCEPT !.skills.ents =
                                  SetEntry(@, CurName,
                                           [CurEntry EXCEPT !.ref = Str(latestRef[1]),
                                                            !.integrity = integrity])]
                /\ pc' = "persist"
                /\ out' = out
    /\ UNCHANGED <<lockDisk, tmpDirs, tmpCount, skillsCliChecked, cmd, work,
                   startDir, installedMap, idx, repoDir, latestRef, count,
                   skipped, calls, history, lfObj, lfRes, lfWritten, fnArg, fnRes,
                   report, checkout, pinned>>

\* cli.ts 237-239: write after each successful update
UpdatePersist ==
    /\ pc = "persist"
    /\ LET w == writeLockfile(lockfile, lockDisk)
       IN IF w.err # OK
          THEN /\ Die("invalid lockfile")
               /\ UNCHANGED <<lockDisk, count, idx, history, latestRef, calls>>
          ELSE /\ lockDisk' = w.disk
               /\ calls' = Append(calls, WriteCall(CurName))
               /\ count' = count + 1
               /\ idx' = idx + 1
               /\ history' = Append(history, [name |-> CurName, did |-> "updated"])
               /\ latestRef' = <<>>
               /\ pc' = "resolve"
               /\ out' = out
    /\ UNCHANGED <<skillsDir, tmpDirs, tmpCount, skillsCliChecked, cmd, lockfile,
                   work, startDir, installedMap, repoDir, skipped,
                   lfObj, lfRes, lfWritten, fnArg, fnRes,
                   report, checkout, pinned>>

\* cli.ts 242-246
FinishUpdate ==
    /\ pc = "resolve"
    /\ idx > Len(work)
    /\ pc' = "done"
    /\ out' = [msg |-> IF count = 0
                       THEN IF Len(work) = 0
                            THEN "No skills to update."
                            ELSE "Everything up to date."
                       ELSE "Updated skill(s).",
               code |-> 0]
    /\ UNCHANGED <<lockDisk, skillsDir, tmpDirs, tmpCount, skillsCliChecked, cmd,
                   lockfile, work, startDir, installedMap, idx, repoDir,
                   latestRef, count, skipped, calls, history, lfObj, lfRes, lfWritten, fnArg, fnRes,
                   report, checkout, pinned>>

---------------------------------------------------------------------------
(* check (cli.ts 252-333)                                                  *)

\* the names the scanner returned, in the order it returned them
ScannedNames(map) == SortedNames(DOMAIN map)

RECURSIVE NotIn(_, _)
\* names.filter((n) => !set.has(n))
NotIn(names, set) ==
    IF names = <<>>
    THEN <<>>
    ELSE IF Head(names) \in set
         THEN NotIn(Tail(names), set)
         ELSE <<Head(names)>> \o NotIn(Tail(names), set)

\* cli.ts 253-264
StartCheck ==
    /\ pc = "idle"
    /\ cmd' = [name |-> "check", force |-> FALSE, skill |-> ""]
    /\ LET r == readLockfile(lockDisk)
           installed == scanInstalledSkills(skillsDir)
       IN IF r.err # OK
          THEN Die("invalid lockfile")
               /\ UNCHANGED <<lockfile, work, installedMap, report>>
          ELSE IF r.value = NoLockfile
               THEN Die("No skills.lock found")
                    /\ UNCHANGED <<lockfile, work, installedMap, report>>
               ELSE /\ pc' = "check"
                    /\ out' = Running
                    /\ lockfile' = r.value
                    /\ work' = r.value.skills.ents
                    /\ installedMap' = installed
                    /\ report' = [NoReport EXCEPT !.extra =
                                     NotIn(ScannedNames(installed),
                                           Names(r.value.skills.ents))]
    /\ UNCHANGED <<lockDisk, skillsDir, tmpDirs, tmpCount, skillsCliChecked,
                   startDir, idx, repoDir, latestRef, count, skipped, calls,
                   history, lfObj, lfRes, lfWritten, fnArg, fnRes, checkout, pinned>>

\* cli.ts 267-290: the category of the current entry, "" when it is in order;
\* diskHash is computed only when the entry pins an integrity
CheckCategory(installedSkill, entry, diskHash) ==
    IF installedSkill = <<>>
    THEN "missing"
    ELSE IF MetadataOf(installedSkill[1]) = <<>>
    THEN "unverified"
    ELSE IF MetadataOf(installedSkill[1])[1].ref # entry.ref
    THEN "wrongRef"
    ELSE IF Truthy(entry.integrity) /\ diskHash # entry.integrity
    THEN "modified"
    ELSE ""

\* cli.ts 266-291: one turn of the loop
CheckEntry ==
    /\ pc = "check"
    /\ idx <= Len(work)
    /\ LET installedSkill == IF CurName \in DOMAIN installedMap
                             THEN <<installedMap[CurName]>> ELSE <<>>
           category == CheckCategory(installedSkill, CurEntry,
                                     computeSkillHash(skillsDir[CurName]))
           hashed == /\ category \in {"modified", ""}
                     /\ Truthy(CurEntry.integrity)
       IN \E o \in {"ok", "hash failed"} :
            IF o = "hash failed"
            THEN /\ hashed
                 /\ Die(o)
                 /\ UNCHANGED <<report, idx>>
            ELSE /\ report' =
                      CASE category = "missing" ->
                             [report EXCEPT !.missing = Append(@, CurName)]
                        [] category = "unverified" ->
                             [report EXCEPT !.unverified = Append(@, CurName)]
                        [] category = "wrongRef" ->
                             [report EXCEPT !.wrongRef =
                                 Append(@, [name |-> CurName,
                                            have |-> MetadataOf(installedSkill[1])[1].ref,
                                            want |-> CurEntry.ref])]
                        [] category = "modified" ->
                             [report EXCEPT !.modified = Append(@, CurName)]
                        [] OTHER -> report
                 /\ idx' = idx + 1
                 /\ UNCHANGED <<pc, out>>
    /\ UNCHANGED <<lockDisk, skillsDir, tmpDirs, tmpCount, skillsCliChecked, cmd,
                   lockfile, work, startDir, installedMap, repoDir, latestRef,
                   count, skipped, calls, history, lfObj, lfRes, lfWritten,
                   fnArg, fnRes, checkout, pinned>>

\* cli.ts 293-298
HasIssues(r) ==
    \/ Len(r.missing) > 0
    \/ Len(r.wrongRef) > 0
    \/ Len(r.modified) > 0
    \/ Len(r.unverified) > 0
    \/ Len(r.extra) > 0

\* cli.ts 293-332: the verdict and the exit code
FinishCheck ==
    /\ pc = "check"
    /\ idx > Len(work)
    /\ pc' = "done"
    /\ out' = IF HasIssues(report)
              THEN [msg |-> "issues reported", code |-> 1]
              ELSE [msg |-> "All skills verified.", code |-> 0]
    /\ UNCHANGED <<lockDisk, skillsDir, tmpDirs, tmpCount, skillsCliChecked, cmd,
                   lockfile, work, startDir, installedMap, idx, repoDir,
                   latestRef, count, skipped, calls, history, lfObj, lfRes,
                   lfWritten, fnArg, fnRes, report, checkout, pinned>>

---------------------------------------------------------------------------

Next ==
    \/ StartInstall
    \/ ClassifyEntry
    \/ BeginReinstall
    \/ RemoveSkill
    \/ InstallSkillClone
    \/ InstallSkillRun
    \/ VerifyAndRecord
    \/ FinishInstall
    \/ StartUpdate
    \/ UpdateResolveRepo
    \/ UpdateResolveRef
    \/ UpdateRecord
    \/ UpdatePersist
    \/ FinishUpdate
    \/ StartCheck
    \/ CheckEntry
    \/ FinishCheck

Spec == InitCLI /\ [][Next]_vars

---------------------------------------------------------------------------
(* The lockfile store on its own: callers hand writeLockfile objects of    *)
(* any shape and read the file back.                                       *)

\* entries a caller may hold: valid without and with integrity, a branch
\* name as ref, an uppercase SHA, a missing source
LfEntries ==
    {Entry(SRC, Str(<<"document-skills/pdf">>), Str(SHA_A), Undef),
     Entry(SRC, Str(<<"document-skills/xlsx">>), Str(SHA_B), H(1)),
     Entry(SRC, Str(<<"z">>), Str(<<"m", "a", "i", "n">>), Undef),
     Entry(SRC, Str(<<"z">>), Str(Rep("A", ShaLen)), H(1)),
     Entry(Undef, Str(<<"z">>), Str(SHA_A), Undef)}

\* the sequences of entries with distinct names, in any insertion order
LfEnts ==
    UNION {{q \in [1..k -> [name : SkillNames, entry : LfEntries]] :
               \A i, j \in 1..k : i # j => q[i].name # q[j].name}
           : k \in 0..Cardinality(SkillNames)}

LfObjects ==
    {MkLockfile(v, Skills(q)) : v \in {Num(1), Num(2)}, q \in LfEnts}
    \cup {MkLockfile(Num(1), [t |-> "null", ents |-> <<>>]),
          MkLockfile(Undef, Skills(<<>>))}

InitLockfile ==
    /\ lockDisk = <<>>
    /\ lfObj = NoLockfile
    /\ lfRes = NoResult
    /\ lfWritten = NoLockfile
    /\ fnArg = NoArg
    /\ fnRes = NoCall
    /\ skillsDir = [n \in SkillNames |-> NotInstalled]
    /\ tmpDirs = {}
    /\ tmpCount = 0
    /\ skillsCliChecked = FALSE
    /\ pc = "idle"
    /\ cmd = NoCmd
    /\ lockfile = NoLockfile
    /\ work = <<>>
    /\ startDir = skillsDir
    /\ installedMap = <<>>
    /\ idx = 1
    /\ repoDir = <<>>
    /\ latestRef = <<>>
    /\ count = 0
    /\ skipped = 0
    /\ calls = <<>>
    /\ history = <<>>
    /\ out = Running
    /\ report = NoReport
    /\ checkout = <<>>
    /\ pinned = NoPin

\* a call of writeLockfile(obj, path)
CallWrite ==
    /\ \E obj \in LfObjects :
        LET w == writeLockfile(obj, lockDisk)
        IN /\ lfObj' = obj
           /\ lockDisk' = w.disk
           /\ lfRes' = [op |-> "write", err |-> w.err, before |-> lockDisk,
                        value |-> NoLockfile]
           /\ lfWritten' = IF w.err = OK THEN obj ELSE lfWritten
    /\ UNCHANGED <<cliVars, fnArg, fnRes>>

\* a call of readLockfile(path)
CallRead ==
    /\ LET r == readLockfile(lockDisk)
       IN lfRes' = [op |-> "read", err |-> r.err, before |-> lockDisk,
                    value |-> r.value]
    /\ UNCHANGED <<lockDisk, lfObj, lfWritten>>
    /\ UNCHANGED <<cliVars, fnArg, fnRes>>

NextLockfile == CallWrite \/ CallRead

SpecLockfile == InitLockfile /\ [][NextLockfile]_vars

---------------------------------------------------------------------------
(* Vocabulary of the properties.                                           *)

InstallPass == cmd.name = "install" /\ pc # "idle"

Entries == 1..Len(work)

\* positions in calls of the remover / the installer for skill n
RemoveCalls(n) == {k \in 1..Len(calls) : calls[k].op = "remove" /\ calls[k].name = n}

InstallCalls(n) == {k \in 1..Len(calls) : calls[k].op = "install" /\ calls[k].name = n}

\* entry i went through the whole loop body
Processed(i) == i < idx /\ i <= Len(history)

\* the sidecar the skill of entry i had on disk when the command started
Meta0(i) == startDir[work[i].name].meta

Installed0(i) == startDir[work[i].name].installed

\* the three drift conditions of the reconciliation table, on the disk as
\* it was
NoSidecar0(i) == Installed0(i) /\ Meta0(i) = <<>>

WrongRef0(i) == Installed0(i) /\ Meta0(i) # <<>> /\ Meta0(i)[1].ref # work[i].entry.ref

Modified0(i) ==
    /\ Installed0(i)
    /\ Meta0(i) # <<>>
    /\ Truthy(work[i].entry.integrity)
    /\ Meta0(i)[1].integrity # work[i].entry.integrity

Satisfied0(i) == Installed0(i) /\ ~NoSidecar0(i) /\ ~WrongRef0(i) /\ ~Modified0(i)

---------------------------------------------------------------------------
---------------------------------------------------------------------------
(* C2: in a non-forced install pass, a skill that is installed with a      *)
(* sidecar whose ref and integrity agree with the lock entry is skipped:   *)
(* neither remover nor installer runs for it, its directory (files and     *)
(* sidecar) stays as it was, and a pass in which every entry is in that    *)
(* state ends with 'All skills verified.'.                                 *)
C2_SatisfiedSkipped ==
    (InstallPass /\ ~cmd.force) =>
        /\ \A i \in Entries :
              Satisfied0(i) =>
                  /\ RemoveCalls(work[i].name) = {}
                  /\ InstallCalls(work[i].name) = {}
                  /\ skillsDir[work[i].name] = startDir[work[i].name]
                  /\ Processed(i) => history[i].did = "skipped"
        /\ (pc = "done" /\ Entries # {} /\ \A i \in Entries : Satisfied0(i)) =>
              out.msg = "All skills verified."

---------------------------------------------------------------------------
(* C3: with the force flag, no entry is skipped: every entry the pass has  *)
(* gone through had the installer run at entry.ref, and the remover ran    *)
(* before the installer for every entry that was installed.                *)
C3_ForceReinstallsAll ==
    (InstallPass /\ cmd.force) =>
        /\ skipped = 0
        /\ pc = "done" => idx > Len(work)
        /\ \A i \in Entries :
              LET n == work[i].name
              IN /\ Processed(i) =>
                        /\ history[i].did = "installed"
                        /\ \E k \in InstallCalls(n) : calls[k].ok
                 /\ \A k \in InstallCalls(n) :
                        /\ calls[k].ref = work[i].entry.ref
                        /\ Installed0(i) =>
                              \E j \in RemoveCalls(n) : j < k /\ calls[j].ok

\* a finished forced pass over two entries, one of which was installed with
\* a sidecar that agreed with the lock
C3_Witness ==
    /\ InstallPass /\ cmd.force /\ pc = "done"
    /\ Len(work) = 2
    /\ \E i \in Entries : Satisfied0(i) /\ history[i].did = "installed"
    /\ \E i \in Entries : ~Installed0(i)

---------------------------------------------------------------------------
(* C4: when the lock entry pins an integrity and the hash computed from    *)
(* what the installer put on disk differs, the pass fails with the         *)
(* integrity error:                                                        *)
(* no sidecar is written for that skill, it is not counted, and every      *)
(* sidecar the pass did write carries the pinned integrity.                *)
C4_MismatchIsFatal ==
    InstallPass =>
        \A i \in Entries :
            LET n == work[i].name
                e == work[i].entry
                ran == \E k \in InstallCalls(n) : calls[k].ok
                mismatch == Truthy(e.integrity)
                            /\ computeSkillHash(skillsDir[n]) # e.integrity
            IN /\ (ran /\ mismatch /\ pc # "hash" /\ out.msg # "hash failed") =>
                      /\ pc = "failed"
                      /\ out = [msg |-> "Integrity check failed", code |-> 1]
                      /\ i = idx
                      /\ skillsDir[n].meta = <<>>
                      /\ count = Len(history)
                      /\ \A h \in 1..Len(history) : history[h].name # n
               /\ (ran /\ skillsDir[n].meta # <<>> /\ Truthy(e.integrity)) =>
                      skillsDir[n].meta[1].integrity = e.integrity

\* a pass that installed one skill and then failed on the integrity of the
\* next
C4_Witness ==
    /\ InstallPass /\ pc = "failed" /\ out.msg = "Integrity check failed"
    /\ idx = 2 /\ count = 1
    /\ Truthy(work[1].entry.integrity)

---------------------------------------------------------------------------
---------------------------------------------------------------------------
(* C6: the per-entry state machine of a reconciliation pass.               *)

\* the state of entry i, read off the loop position
EntryState(i) ==
    IF i < idx
    THEN IF history[i].did = "skipped" THEN "Satisfied" ELSE "Verified"
    ELSE IF i > idx
         THEN "Unchecked"
         ELSE CASE pc = "classify" -> "Unchecked"
                [] pc = "begin" -> "Drifted"
                [] pc \in {"remove", "install", "exec", "hash"} -> "Installing"
                [] pc = "failed" -> "Failed"
                [] OTHER -> "Unchecked"

AllowedTransitions ==
    {<<"Unchecked", "Satisfied">>, <<"Unchecked", "Drifted">>,
     <<"Drifted", "Installing">>, <<"Installing", "Verified">>,
     <<"Installing", "Failed">>}

Terminal == {"Satisfied", "Verified", "Failed"}

\* what the remover, the installer and the sidecar writer have done to skill n
Touched(n) == <<skillsDir[n], RemoveCalls(n), InstallCalls(n)>>

(* C6: within one install pass every entry moves only along               *)
(* Unchecked -> Satisfied, Unchecked -> Drifted, Drifted -> Installing,    *)
(* Installing -> Verified, Installing -> Failed; once Satisfied, Verified  *)
(* or Failed it stays so and its skill is no longer touched by remover,    *)
(* installer or sidecar writer; a Satisfied entry was never touched.       *)
C6_EntryStateMachine ==
    [][cmd.name = "install" =>
          \A i \in Entries :
              /\ EntryState(i)' # EntryState(i) =>
                    <<EntryState(i), EntryState(i)'>> \in AllowedTransitions
              /\ EntryState(i) \in Terminal =>
                    /\ EntryState(i)' = EntryState(i)
                    /\ Touched(work[i].name)' = Touched(work[i].name)
              /\ EntryState(i)' = "Satisfied" =>
                    /\ skillsDir'[work[i].name] = startDir[work[i].name]
                    /\ RemoveCalls(work[i].name)' = {}
                    /\ InstallCalls(work[i].name)' = {}]_vars

\* a pass with a Verified first entry and a Failed second one
C6_Witness ==
    /\ InstallPass /\ Len(work) = 2 /\ idx = 2
    /\ EntryState(1) = "Verified"
    /\ EntryState(2) = "Failed"
    /\ InstallCalls(work[2].name) # {}

---------------------------------------------------------------------------
(* C7: no temporary checkout created by a command outlives it, however     *)
(* the command ends.                                                       *)
C7_NoTempLeft ==
    pc \in {"done", "failed"} => tmpDirs = {}

---------------------------------------------------------------------------
(* C8: at every moment of an update run, the lockfile on disk holds the    *)
(* new ref and integrity of every skill the run has updated so far.        *)

DiskLockfile == readLockfile(lockDisk).value

EntryOf(lf, n) == lf.skills.ents[IndexOf(lf.skills.ents, n)].entry

C8_UpdatesDurable ==
    (cmd.name = "update" /\ pc # "idle") =>
        \A i \in Entries :
            (Processed(i) /\ history[i].did = "updated") =>
                LET n == work[i].name
                IN /\ n \in Names(DiskLockfile.skills.ents)
                   /\ EntryOf(DiskLockfile, n) = EntryOf(lockfile, n)
                   /\ EntryOf(DiskLockfile, n).ref # work[i].entry.ref
                   /\ EntryOf(DiskLockfile, n).integrity =
                         computeSkillHash(skillsDir[n])

\* a bulk update that updated its first skill and failed on the second
C8_Witness ==
    /\ cmd.name = "update" /\ cmd.skill = ""
    /\ pc = "failed" /\ idx = 2
    /\ history[1].did = "updated"
    /\ calls[Len(calls)].op = "remove"

---------------------------------------------------------------------------
(* C9: writeLockfile validates before it persists: handed an object that   *)
(* validateLockfile rejects, it fails with that error and leaves the file  *)
(* as it was (absent if it was absent); so the file, when present, holds   *)
(* version 1 and only refs of 40 lowercase hex digits.                     *)

DocRefs(doc) ==
    {Get(Get(doc, "skills").members[i].val, "ref") :
        i \in 1..Len(Get(doc, "skills").members)}

C9_OnlyValidPersisted ==
    /\ (lfRes.op = "write" /\ validateLockfile(lfObj) # OK) =>
          /\ lfRes.err = validateLockfile(lfObj)
          /\ lfRes.err # OK
          /\ lockDisk = lfRes.before
    /\ lockDisk # <<>> =>
          /\ Get(lockDisk[1], "version") = JScalar(Num(1))
          /\ Get(lockDisk[1], "skills").t = "object"
          /\ \A r \in DocRefs(lockDisk[1]) : r.t = "string" /\ IsFullSha(r.v)

\* a rejected write over a file that an earlier write had created
C9_Witness ==
    /\ lfRes.op = "write"
    /\ lfRes.err # OK
    /\ lfRes.before # <<>>
    /\ lfObj.skills.ents # <<>>
    /\ IsOne(lfObj.version)

---------------------------------------------------------------------------
(* C10: reading the file that writeLockfile(L) produced returns a lockfile *)
(* structurally equal to L: same version, same skill names, and for each   *)
(* name the same source, path, ref and integrity.                          *)

StructurallyEqual(a, b) ==
    /\ a.version = b.version
    /\ Names(a.skills.ents) = Names(b.skills.ents)
    /\ Len(a.skills.ents) = Len(b.skills.ents)
    /\ \A n \in Names(a.skills.ents) :
          /\ EntryOf(a, n).source = EntryOf(b, n).source
          /\ EntryOf(a, n).path = EntryOf(b, n).path
          /\ EntryOf(a, n).ref = EntryOf(b, n).ref
          /\ EntryOf(a, n).integrity = EntryOf(b, n).integrity

C10_RoundTrip ==
    (lfRes.op = "read" /\ lfWritten # NoLockfile) =>
        /\ lfRes.err = OK
        /\ StructurallyEqual(lfRes.value, lfWritten)

\* a read back of two entries written out of name order, one with integrity
C10_Witness ==
    /\ lfRes.op = "read"
    /\ lfWritten # NoLockfile
    /\ Len(lfWritten.skills.ents) = 2
    /\ localeCompare(lfWritten.skills.ents[1].name, lfWritten.skills.ents[2].name) > 0
    /\ \E i \in 1..2 : Truthy(lfWritten.skills.ents[i].entry.integrity)
    /\ lfRes.value # lfWritten

---------------------------------------------------------------------------
(* Library functions called directly.  fnArg holds the argument, fnRes the *)
(* call made and its result; the command machine and the lockfile file     *)
(* stay idle.                                                              *)

Idle ==
    /\ lockDisk = <<>>
    /\ lfObj = NoLockfile
    /\ lfRes = NoResult
    /\ lfWritten = NoLockfile
    /\ skillsDir = [n \in SkillNames |-> NotInstalled]
    /\ tmpDirs = {}
    /\ tmpCount = 0
    /\ skillsCliChecked = FALSE
    /\ pc = "idle"
    /\ cmd = NoCmd
    /\ lockfile = NoLockfile
    /\ work = <<>>
    /\ startDir = skillsDir
    /\ installedMap = <<>>
    /\ idx = 1
    /\ repoDir = <<>>
    /\ latestRef = <<>>
    /\ count = 0
    /\ skipped = 0
    /\ calls = <<>>
    /\ history = <<>>
    /\ out = Running
    /\ report = NoReport
    /\ checkout = <<>>
    /\ pinned = NoPin

idleVars == <<lockDisk, lfObj, lfRes, lfWritten, cliVars>>

Call(op, value) == [op |-> op, value |-> value]

---------------------------------------------------------------------------
(* writeLockfile on mappings of any key set, built in any insertion order. *)

SortNames == {"10", "2", "pdf", "xlsx"}

\* the pairs a caller defines on an empty skills object, one after the other
InsertionOrders ==
    UNION {{q \in [1..k -> [name : SortNames,
                            entry : {Entry(SRC, Str(<<"p">>), Str(SHA_A), Undef)}]] :
               \A i, j \in 1..k : i # j => q[i].name # q[j].name}
           : k \in 0..Cardinality(SortNames)}

InitSort ==
    /\ Idle
    /\ fnArg \in InsertionOrders
    /\ fnRes = NoCall

\* writeLockfile of the lockfile whose skills were defined in the order
\* fnArg, on a fresh path: the result holds the file written
CallWriteSorted ==
    /\ fnRes.op = "none"
    /\ fnRes' = Call("writeLockfile",
                     writeLockfile(MkLockfile(Num(1), ObjectFromEntries(fnArg)), <<>>).disk)
    /\ UNCHANGED <<fnArg, idleVars>>

NextSort == CallWriteSorted

SpecSort == InitSort /\ [][NextSort]_vars

\* the skill keys of a lockfile document, in the order of the text
DocKeys(doc) ==
    [i \in 1..Len(Get(doc, "skills").members) |-> Get(doc, "skills").members[i].k]

(* C11: the file writeLockfile produces lists the skill keys in ascending  *)
(* order by name, whatever the names and the insertion order of the        *)
(* mapping.                                                                *)
C11_KeysAscending ==
    (fnRes.op = "writeLockfile" /\ fnRes.value # <<>>) =>
        \A i, j \in 1..Len(DocKeys(fnRes.value[1])) :
            i < j => localeCompare(DocKeys(fnRes.value[1])[i],
                                   DocKeys(fnRes.value[1])[j]) < 0

---------------------------------------------------------------------------
(* validateLockfile on values of any shape.                                *)

\* refs: two full SHAs, one character short, one long, uppercase, a single
\* uppercase or non-hex character, a branch, a tag, a short SHA, empty
RefStrings ==
    {SHA_A,
     [i \in 1..ShaLen |-> IF i % 2 = 0 THEN "0" ELSE "f"],
     Rep("a", ShaLen - 1),
     Rep("a", ShaLen + 1),
     Rep("A", ShaLen),
     [i \in 1..ShaLen |-> IF i = ShaLen THEN "F" ELSE "a"],
     [i \in 1..ShaLen |-> IF i = 1 THEN "g" ELSE "9"],
     <<"m", "a", "i", "n">>,
     <<"v", "1", ".", "2", ".", "3">>,
     <<"a", "b", "c", "1", "2", "3", "4">>,
     <<>>}

ValidateEntryInputs ==
    {NonObjectEntry("null"), NonObjectEntry("string")}
    \cup {Entry(source, path, ref, Undef) :
            source \in {Str(<<"a">>), Undef, Num(123)},
            path \in {Str(<<"b">>), Undef},
            ref \in {Undef, Num(1)} \cup {Str(r) : r \in RefStrings}}

ValidateSkillsInputs ==
    {[t |-> "undefined", ents |-> <<>>], [t |-> "null", ents |-> <<>>],
     [t |-> "string", ents |-> <<>>]}
    \cup UNION {{Skills(q) : q \in {r \in [1..k -> [name : SkillNames,
                                                      entry : ValidateEntryInputs]] :
                                      \A i, j \in 1..k : i < j =>
                                          r[i].name # r[j].name}}
                : k \in 0..Cardinality(SkillNames)}

ValidateInputs ==
    {[t |-> tag, version |-> Undef, skills |-> [t |-> "undefined", ents |-> <<>>]] :
        tag \in {"null", "string", "number", "undefined", "array"}}
    \cup {MkLockfile(version, skills) :
            version \in {Num(1), Num(0), Num(2), Str(<<"1">>), Undef, Null},
            skills \in ValidateSkillsInputs}

InitValidate ==
    /\ Idle
    /\ fnArg \in ValidateInputs
    /\ fnRes = NoCall

CallValidate ==
    /\ fnRes.op = "none"
    /\ fnRes' = Call("validateLockfile", validateLockfile(fnArg))
    /\ UNCHANGED <<fnArg, idleVars>>

NextValidate == CallValidate

SpecValidate == InitValidate /\ [][NextValidate]_vars

Validated == fnRes.op = "validateLockfile"

\* the value passes the checks made before the entries are looked at
TopLevelFine(data) ==
    /\ data.t \in {"object", "array"}
    /\ data.version = Num(1)
    /\ data.skills.t \in {"object", "array"}

AllStrings(entry) ==
    /\ entry.t = "object"
    /\ entry.source.t = "string" /\ entry.path.t = "string" /\ entry.ref.t = "string"

\* exactly 40 characters, each in 0-9 or a-f
FortyLowerHex(ref) ==
    /\ Len(ref) = 40
    /\ {ref[i] : i \in 1..Len(ref)} \subseteq
           {"0", "1", "2", "3", "4", "5", "6", "7", "8", "9", "a", "b", "c", "d", "e", "f"}

(* C12: a lockfile whose entries all have strings for source, path and ref *)
(* is accepted iff every ref is exactly 40 characters in 0-9a-f; otherwise *)
(* the error names the first entry whose ref is not, quotes that ref, and  *)
(* ends in 'must be a full 40-character commit SHA'.                       *)
C12_FullShaOnly ==
    (/\ Validated
     /\ TopLevelFine(fnArg)
     /\ \A i \in 1..Len(fnArg.skills.ents) : AllStrings(fnArg.skills.ents[i].entry)) =>
        LET ents == fnArg.skills.ents
            bad == {i \in 1..Len(ents) : ~FortyLowerHex(ents[i].entry.ref.v)}
        IN /\ (fnRes.value = OK) <=> (bad = {})
           /\ bad # {} =>
                LET k == CHOOSE i \in bad : \A j \in bad : i <= j
                IN fnRes.value =
                      <<"Skill '", ents[k].name, "' has invalid ref '">>
                      \o ents[k].entry.ref.v
                      \o <<"' - must be a full 40-character commit SHA">>

\* an uppercase SHA after a valid entry is rejected
C12_Witness ==
    /\ Validated
    /\ TopLevelFine(fnArg)
    /\ Len(fnArg.skills.ents) = 2
    /\ AllStrings(fnArg.skills.ents[1].entry)
    /\ fnArg.skills.ents[1].entry.ref.v = SHA_A
    /\ AllStrings(fnArg.skills.ents[2].entry)
    /\ fnArg.skills.ents[2].entry.ref.v = Rep("A", 40)
    /\ fnRes.value # OK
    /\ fnRes.value[Len(fnRes.value)] = "' - must be a full 40-character commit SHA"

\* what is wrong with one entry: "" if nothing, else the kind of violation
EntryViolation(entry) ==
    IF entry.t \notin {"object", "array"} THEN "not an object"
    ELSE IF entry.source.t # "string" THEN "source"
    ELSE IF entry.path.t # "string" THEN "path"
    ELSE IF entry.ref.t # "string" THEN "ref"
    ELSE IF ~FortyLowerHex(entry.ref.v) THEN "malformed ref"
    ELSE ""

(* C13: validateLockfile reports the first violation in the order          *)
(* top-level value, version, skills, then entry by entry (not an object,   *)
(* source, path, ref not a string, malformed ref), with the version        *)
(* message carrying the value ('undefined' when absent), and it succeeds   *)
(* iff there is no violation.                                              *)
C13_FirstViolationReported ==
    Validated =>
        LET d == fnArg
            e == fnRes.value
            ents == d.skills.ents
            bad == {i \in 1..Len(ents) : EntryViolation(ents[i].entry) # ""}
            k == CHOOSE i \in bad : \A j \in bad : i <= j
        IN /\ d.t \notin {"object", "array"} => e = <<"Lockfile must be a JSON object">>
           /\ (d.t \in {"object", "array"} /\ d.version # Num(1)) =>
                /\ Len(e) >= 2
                /\ e[1] = "Unsupported lockfile version: "
                /\ d.version = Undef => e = <<e[1], "undefined">>
                /\ d.version = Num(2) => e = <<e[1], "2">>
                /\ d.version = Num(0) => e = <<e[1], "0">>
                /\ d.version = Str(<<"1">>) => e = <<e[1], "1">>
           /\ (d.t \in {"object", "array"} /\ d.version = Num(1)
                 /\ d.skills.t \notin {"object", "array"}) =>
                e = <<"Lockfile must have a 'skills' object">>
           /\ TopLevelFine(d) =>
                /\ (e = OK) <=> (bad = {})
                /\ bad # {} =>
                     LET v == EntryViolation(ents[k].entry)
                         n == ents[k].name
                     IN /\ v = "not an object" => e = <<"Skill '", n, "' must be an object">>
                        /\ v \in {"source", "path", "ref"} =>
                             e = <<"Skill '", n, "' missing or invalid field '", v, "'">>
                        /\ v = "malformed ref" =>
                             /\ e[1] = "Skill '" /\ e[2] = n /\ e[3] = "' has invalid ref '"
                             /\ e[Len(e)] = "' - must be a full 40-character commit SHA"
           /\ (e = OK) => TopLevelFine(d)

\* the second entry lacks source and path and has a branch name as ref, the
\* first is fine: the error is about the second entry's source
C13_Witness ==
    /\ Validated
    /\ TopLevelFine(fnArg)
    /\ Len(fnArg.skills.ents) = 2
    /\ EntryViolation(fnArg.skills.ents[1].entry) = ""
    /\ fnArg.skills.ents[2].entry.t = "object"
    /\ fnArg.skills.ents[2].entry.source = Undef
    /\ fnArg.skills.ents[2].entry.path = Undef
    /\ fnArg.skills.ents[2].entry.ref = Str(<<"m", "a", "i", "n">>)
    /\ fnRes.value = <<"Skill '", fnArg.skills.ents[2].name,
                       "' missing or invalid field '", "source", "'">>

---------------------------------------------------------------------------
(* diffLockfiles (lockfile.ts 95-110).                                     *)

\* Object.keys(lock.skills)
ObjectKeys(skills) == [i \in 1..Len(skills.ents) |-> skills.ents[i].name]

Has(names, n) == \E i \in 1..Len(names) : names[i] = n

\* lock.skills[n]
SkillOf(lock, n) == lock.skills.ents[IndexOf(lock.skills.ents, n)].entry

RECURSIVE Filter(_, _)
\* [...names].filter(Keep), Keep given as the set of names it keeps
Filter(names, keep) ==
    IF names = <<>>
    THEN <<>>
    ELSE IF Head(names) \in keep
         THEN <<Head(names)>> \o Filter(Tail(names), keep)
         ELSE Filter(Tail(names), keep)

\* a name present in both counts as changed when the entries differ at all
diffLockfiles_WholeEntry(oldLock, newLock) ==
    LET oldNames == ObjectKeys(oldLock.skills)
        newNames == ObjectKeys(newLock.skills)
    IN [added |-> Filter(newNames, {n \in Names(newLock.skills.ents) : ~Has(oldNames, n)}),
        removed |-> Filter(oldNames, {n \in Names(oldLock.skills.ents) : ~Has(newNames, n)}),
        changed |-> Filter(newNames,
                           {n \in Names(newLock.skills.ents) :
                               /\ Has(oldNames, n)
                               /\ SkillOf(oldLock, n) # SkillOf(newLock, n)})]

diffLockfiles(oldLock, newLock) ==
    LET oldNames == ObjectKeys(oldLock.skills)
        newNames == ObjectKeys(newLock.skills)
    IN [added |-> Filter(newNames, {n \in Names(newLock.skills.ents) : ~Has(oldNames, n)}),
        removed |-> Filter(oldNames, {n \in Names(oldLock.skills.ents) : ~Has(newNames, n)}),
        changed |-> Filter(newNames,
                           {n \in Names(newLock.skills.ents) :
                               /\ Has(oldNames, n)
                               /\ SkillOf(oldLock, n).ref # SkillOf(newLock, n).ref})]

DiffNames == {"csv", "pdf", "xlsx"}

\* one entry, and the entries that differ from it in exactly one field
DiffEntries ==
    {Entry(SRC, Str(<<"a">>), Str(SHA_A), Undef),
     Entry(SRC, Str(<<"a">>), Str(SHA_B), Undef),
     Entry(Str(<<"git@github.com:o/r.git">>), Str(<<"a">>), Str(SHA_A), Undef),
     Entry(SRC, Str(<<"b">>), Str(SHA_A), Undef),
     Entry(SRC, Str(<<"a">>), Str(SHA_A), H(1))}

\* lockfiles as readLockfile returns them from a file the tool wrote
DiffLockfiles ==
    UNION {{MkLockfile(Num(1),
                       Skills([i \in 1..Cardinality(S) |->
                                 [name |-> SortedNames(S)[i],
                                  entry |-> f[SortedNames(S)[i]]]])) :
               f \in [S -> DiffEntries]}
           : S \in SUBSET DiffNames}

InitDiff ==
    /\ Idle
    /\ fnArg \in [oldLock : DiffLockfiles, newLock : DiffLockfiles]
    /\ fnRes = NoCall

CallDiff ==
    /\ fnRes.op = "none"
    /\ fnRes' = Call("diffLockfiles", diffLockfiles(fnArg.oldLock, fnArg.newLock))
    /\ UNCHANGED <<fnArg, idleVars>>

NextDiff == CallDiff

SpecDiff == InitDiff /\ [][NextDiff]_vars

\* the names of a result list, and that no name is listed twice
Listed(list) == {list[i] : i \in 1..Len(list)}

NoRepeat(list) == Cardinality(Listed(list)) = Len(list)

OldNames == Names(fnArg.oldLock.skills.ents)

NewNames == Names(fnArg.newLock.skills.ents)

(* C14: diff(old, new) lists as added exactly the names only in new, as    *)
(* removed exactly the names only in old, as changed exactly the names in  *)
(* both whose ref differs; a name whose entries differ in source, path or  *)
(* integrity but not in ref is not in changed; diff(X, X) is empty.        *)
C14_DiffExact ==
    fnRes.op = "diffLockfiles" =>
        LET d == fnRes.value
        IN /\ Listed(d.added) = NewNames \ OldNames
           /\ Listed(d.removed) = OldNames \ NewNames
           /\ Listed(d.changed) =
                 {n \in OldNames \cap NewNames :
                     SkillOf(fnArg.oldLock, n).ref # SkillOf(fnArg.newLock, n).ref}
           /\ NoRepeat(d.added) /\ NoRepeat(d.removed) /\ NoRepeat(d.changed)
           /\ \A n \in OldNames \cap NewNames :
                 SkillOf(fnArg.oldLock, n).ref = SkillOf(fnArg.newLock, n).ref =>
                     n \notin Listed(d.changed)
           /\ fnArg.oldLock = fnArg.newLock =>
                 d = [added |-> <<>>, removed |-> <<>>, changed |-> <<>>]

\* one name added, one removed, and of the two names in both one with a
\* new ref and one with only a new integrity
C14_Witness ==
    /\ fnRes.op = "diffLockfiles"
    /\ OldNames = {"csv", "pdf"}
    /\ NewNames = {"pdf", "xlsx"}
    /\ SkillOf(fnArg.oldLock, "pdf") # SkillOf(fnArg.newLock, "pdf")
    /\ SkillOf(fnArg.oldLock, "pdf").ref = SkillOf(fnArg.newLock, "pdf").ref
    /\ fnRes.value = [added |-> <<"xlsx">>, removed |-> <<"csv">>, changed |-> <<>>]

---------------------------------------------------------------------------
(* expandSource (resolver.ts 12-53).                                       *)
(* A source string is the tuple of its pieces of text, taken from Pieces.  *)
(* No piece is the prefix of another, so two tuples are equal exactly when *)
(* the strings are; the only piece ending in ".git" is ".git", "/" occurs  *)
(* only as a piece of its own outside the scheme, and every piece other    *)
(* than "/" and the schemes is made of characters in [a-zA-Z0-9_.-].       *)

Schemes == {"https://", "http://"}

WordPieces == {"github.com", "gitlab.com", "o", ".git", "-", "tree", ".."}

Pieces == Schemes \cup {"git@", "/"} \cup WordPieces

\* source.startsWith(piece)
StartsWith(s, piece) == s # <<>> /\ s[1] = piece

\* s.endsWith(".git")
EndsWithGit(s) == s # <<>> /\ s[Len(s)] = ".git"

\* s.endsWith(".git") ? s.slice(0, -4) : s
StripGit(s) == IF EndsWithGit(s) THEN SubSeq(s, 1, Len(s) - 1) ELSE s

Slashes(s) == {i \in 1..Len(s) : s[i] = "/"}

RECURSIVE Split(_)
\* s.split("/")
Split(s) ==
    IF Slashes(s) = {}
    THEN <<s>>
    ELSE LET i == CHOOSE k \in Slashes(s) : \A j \in Slashes(s) : k <= j
         IN <<SubSeq(s, 1, i - 1)>> \o Split(SubSeq(s, i + 1, Len(s)))

RECURSIVE SkipSlashes(_)
\* the URL parser ignores further slashes between the scheme and the host
SkipSlashes(s) ==
    IF s # <<>> /\ Head(s) = "/" THEN SkipSlashes(Tail(s)) ELSE s

RECURSIVE RemoveDotSegments(_, _)
\* the URL parser's path state: a ".." segment drops the segment before it,
\* and leaves an empty segment when it is the last one
RemoveDotSegments(raw, path) ==
    IF raw = <<>>
    THEN path
    ELSE IF Head(raw) = <<"..">>
         THEN LET shortened == IF path = <<>> THEN <<>>
                               ELSE SubSeq(path, 1, Len(path) - 1)
              IN RemoveDotSegments(Tail(raw),
                                   IF Len(raw) = 1 THEN Append(shortened, <<>>)
                                   ELSE shortened)
         ELSE RemoveDotSegments(Tail(raw), Append(path, Head(raw)))

RECURSIVE JoinPath(_)
\* "/" + segments.join("/")
JoinPath(segments) ==
    IF segments = <<>>
    THEN <<>>
    ELSE <<"/">> \o Head(segments) \o JoinPath(Tail(segments))

\* new URL(source) for a source that starts with a scheme of Schemes:
\* [ok, hostname, pathname]; it throws (ok = FALSE) when there is no host.
\* A host other than the two the function looks for is kept as written.
ParseURL(source) ==
    LET parts == Split(SkipSlashes(Tail(source)))
        raw == IF Len(parts) = 1 THEN <<<<>>>> ELSE Tail(parts)
    IN [ok |-> Head(parts) # <<>>,
        hostname |-> Head(parts),
        pathname |-> JoinPath(RemoveDotSegments(raw, <<>>))]

\* /^[a-zA-Z0-9_.-]+\/[a-zA-Z0-9_.-]+$/.test(source)
IsShorthand(source) ==
    /\ Cardinality(Slashes(source)) = 1
    /\ source[1] # "/" /\ source[Len(source)] # "/"
    /\ \A i \in 1..Len(source) : source[i] \in WordPieces \cup {"/"}

TreeMarker == <<"/", "-", "/", "tree", "/">>

\* pathname.indexOf("/-/tree/"), counted in pieces; -1 if absent
IndexOfTree(pathname) ==
    LET hits == {i \in 1..Len(pathname) :
                    /\ i + Len(TreeMarker) - 1 <= Len(pathname)
                    /\ SubSeq(pathname, i, i + Len(TreeMarker) - 1) = TreeMarker}
    IN IF hits = {} THEN -1 ELSE (CHOOSE i \in hits : \A j \in hits : i <= j) - 1

\* the .git suffix is appended without looking for one
GitHubUrl_AlwaysAppend(owner, repo) ==
    <<"https://", "github.com", "/">> \o owner \o <<"/">> \o repo \o <<".git">>

\* resolver.ts 30-31
GitHubUrl(owner, repo) ==
    <<"https://", "github.com", "/">> \o owner \o <<"/">> \o StripGit(repo) \o <<".git">>

\* the .git suffix is appended to the repository path as it stands
GitLabUrl_AlwaysAppend(pathname) ==
    LET treeIdx == IndexOfTree(pathname)
        repoPath == IF treeIdx # -1 THEN SubSeq(pathname, 1, treeIdx) ELSE pathname
    IN <<"https://", "gitlab.com">> \o repoPath \o <<".git">>

\* resolver.ts 38-41
GitLabUrl(pathname) ==
    LET treeIdx == IndexOfTree(pathname)
        repoPath == IF treeIdx # -1 THEN SubSeq(pathname, 1, treeIdx) ELSE pathname
    IN <<"https://", "gitlab.com">> \o StripGit(repoPath) \o <<".git">>

expandSource(source) ==
    IF StartsWith(source, "git@")
    THEN source
    ELSE IF StartsWith(source, "http://") \/ StartsWith(source, "https://")
    THEN LET url == ParseURL(source)
             seg == Split(url.pathname)
             owner == IF Len(seg) >= 2 THEN seg[2] ELSE <<>>
             repo == IF Len(seg) >= 3 THEN seg[3] ELSE <<>>
         IN IF ~url.ok
            THEN source
            ELSE IF url.hostname = <<"github.com">> /\ owner # <<>> /\ repo # <<>>
            THEN GitHubUrl(owner, repo)
            ELSE IF url.hostname = <<"gitlab.com">>
            THEN GitLabUrl(url.pathname)
            ELSE source
    ELSE IF IsShorthand(source)
    THEN <<"https://", "github.com", "/">> \o source \o <<".git">>
    ELSE source

MaxSegments == 4

\* what may stand between two slashes of a URL's path
SegmentForms == {<<>>, <<"o">>, <<"o", ".git">>, <<"-">>, <<"tree">>, <<"..">>}

\* what may stand between two slashes of a source that is not a URL
WordForms == {<<>>, <<"o">>, <<"o", ".git">>, <<"..">>, <<"github.com">>}

RECURSIVE Join(_)
\* segments.join("/")
Join(segments) ==
    IF Len(segments) = 1
    THEN Head(segments)
    ELSE Head(segments) \o <<"/">> \o Join(Tail(segments))

\* HTTP(S) URLs on the two hosts, on another host and without host, with a
\* path of up to MaxSegments segments
UrlSources ==
    {<<scheme>> \o host \o JoinPath(segs) :
        scheme \in Schemes,
        host \in {<<"github.com">>, <<"gitlab.com">>, <<"o">>, <<>>},
        segs \in UNION {[1..k -> SegmentForms] : k \in 0..MaxSegments}}

\* SSH identifiers, shorthands and other strings
OtherSources ==
    {prefix \o Join(segs) :
        prefix \in {<<>>, <<"git@">>},
        segs \in UNION {[1..k -> WordForms] : k \in 1..MaxSegments}}

Sources == UrlSources \cup OtherSources

InitExpand ==
    /\ Idle
    /\ fnArg \in Sources
    /\ fnRes = NoCall

\* url = expandSource(source)
CallExpand ==
    /\ fnRes.op = "none"
    /\ fnRes' = Call("expandSource", <<expandSource(fnArg)>>)
    /\ UNCHANGED <<fnArg, idleVars>>

\* expandSource(url), on the result of the call before
CallExpandAgain ==
    /\ fnRes.op = "expandSource"
    /\ fnRes' = Call("expandSource again",
                     <<fnRes.value[1], expandSource(fnRes.value[1])>>)
    /\ UNCHANGED <<fnArg, idleVars>>

NextExpand == CallExpand \/ CallExpandAgain

SpecExpand == InitExpand /\ [][NextExpand]_vars

(* C15: expandSource is idempotent: applied to its own result it returns   *)
(* that result.                                                            *)
C15_Idempotent ==
    fnRes.op = "expandSource again" => fnRes.value[2] = fnRes.value[1]

\* a secondary-host tree URL was rewritten by the first call and its result
\* left alone by the second
C15_Witness ==
    /\ fnRes.op = "expandSource again"
    /\ fnArg = <<"http://", "gitlab.com", "/", "o", "/", "-", "/", "tree", "/", "o">>
    /\ fnRes.value[1] = <<"https://", "gitlab.com", "/", "o", ".git">>
    /\ fnRes.value[2] = fnRes.value[1]

\* the segments of the path of the URL fnArg
PathSegments == Tail(Split(ParseURL(fnArg).pathname))

IsGitHubRepoUrl ==
    /\ fnArg # <<>>
    /\ fnArg[1] \in Schemes
    /\ ParseURL(fnArg).hostname = <<"github.com">>
    /\ Len(PathSegments) >= 2
    /\ PathSegments[1] # <<>>
    /\ PathSegments[2] # <<>>

\* owner/repo: two non-empty runs of letters, digits, '.', '_', '-' around
\* one slash
IsOwnerRepo ==
    /\ Cardinality({i \in 1..Len(fnArg) : fnArg[i] = "/"}) = 1
    /\ fnArg[1] # "/"
    /\ fnArg[Len(fnArg)] # "/"
    /\ \A i \in 1..Len(fnArg) : fnArg[i] \notin Schemes \cup {"git@"}

---------------------------------------------------------------------------
(* Directory trees.  A tree is a function from the paths of its regular    *)
(* files (a path is the tuple of names from the root of the tree) to their *)
(* contents; a directory is any proper prefix of a file's path, and the    *)
(* root.                                                                   *)

IsFile(tree, path) == path \in DOMAIN tree

IsDirectory(tree, path) ==
    \/ path = <<>>
    \/ \E q \in DOMAIN tree : Len(q) > Len(path) /\ SubSeq(q, 1, Len(path)) = path

Exists(tree, path) == IsFile(tree, path) \/ IsDirectory(tree, path)

RECURSIVE Present(_, _, _)
\* readdir(dir): the names in dir, in the order the file system lists them
Present(tree, dir, listing) ==
    IF listing = <<>>
    THEN <<>>
    ELSE IF Exists(tree, Append(dir, Head(listing)))
         THEN <<Head(listing)>> \o Present(tree, dir, Tail(listing))
         ELSE Present(tree, dir, Tail(listing))

readdir(tree, dir, listing) == Present(tree, dir, listing)

\* no file is at a path that another file lies under
PrefixFree(paths) ==
    \A p, q \in paths : Len(p) < Len(q) => SubSeq(q, 1, Len(p)) # p

RECURSIVE SetsUpTo(_, _)
\* the subsets of S with at most k elements
SetsUpTo(S, k) ==
    IF k = 0
    THEN {{}}
    ELSE LET smaller == SetsUpTo(S, k - 1)
         IN smaller \cup {t \cup {x} : t \in smaller, x \in S}

---------------------------------------------------------------------------
(* findSkills (resolver.ts 120-156).                                       *)

\* only the version-control directory is left out
IsSkippedDir_GitOnly(name) == name = ".git"

\* resolver.ts 129: directories the walk does not enter
IsSkippedDir(name) == name = ".git" \/ name = "node_modules"

\* relative(base, dir), "." for base itself, with "/" between the names
RelativePath(dir) == IF dir = <<>> THEN <<".">> ELSE Join([i \in 1..Len(dir) |-> <<dir[i]>>])

\* basename(path)
basename(path) == Split(path)[Len(Split(path))]

RECURSIVE findSkillMdFiles(_, _, _)
RECURSIVE WalkEntries(_, _, _, _)

\* resolver.ts 127-137: the loop over the entries of dir
WalkEntries(tree, dir, entries, listing) ==
    IF entries = <<>>
    THEN <<>>
    ELSE LET name == Head(entries)
             fullPath == Append(dir, name)
             found == IF IsDirectory(tree, fullPath) /\ ~IsFile(tree, fullPath)
                         /\ ~IsSkippedDir(name)
                      THEN findSkillMdFiles(tree, fullPath, listing)
                      ELSE IF IsFile(tree, fullPath) /\ name = "SKILL.md"
                      THEN <<RelativePath(dir)>>
                      ELSE <<>>
         IN found \o WalkEntries(tree, dir, Tail(entries), listing)

findSkillMdFiles(tree, dir, listing) ==
    WalkEntries(tree, dir, readdir(tree, dir, listing), listing)

\* resolver.ts 105-114 on a checkout whose HEAD is head (<<>>: no commit)
resolveRef(head) ==
    IF head = <<>>
    THEN [err |-> <<"No commits found in ", "repoDir">>, hash |-> <<>>]
    ELSE [err |-> OK, hash |-> head[1]]

\* resolver.ts 145-156: [err, skills]
findSkills(repo, source) ==
    LET skillPaths == findSkillMdFiles(repo.tree, <<>>, repo.listing)
        ref == resolveRef(repo.head)
    IN IF ref.err # OK
       THEN [err |-> ref.err, skills |-> <<>>]
       ELSE [err |-> OK,
             skills |-> [i \in 1..Len(skillPaths) |->
                           [name |-> basename(skillPaths[i]),
                            source |-> source,
                            path |-> skillPaths[i],
                            ref |-> ref.hash]]]

MaxDirDepth == 2

MaxFiles == 2

DirNames == {"a", ".git", "node_modules"}

FileNames == {"SKILL.md", "a"}

\* the directories of a checkout, down to MaxDirDepth below the root
CheckoutDirs == UNION {[1..k -> DirNames] : k \in 0..MaxDirDepth}

CheckoutPaths == {Append(d, f) : d \in CheckoutDirs, f \in FileNames}

\* checkouts with up to MaxFiles files
CheckoutTrees ==
    {[p \in t |-> <<>>] : t \in {u \in SetsUpTo(CheckoutPaths, MaxFiles) : PrefixFree(u)}}

\* two orders in which a file system may list the names of a directory
Listings ==
    {<<"SKILL.md", "a", ".git", "node_modules">>,
     <<"node_modules", ".git", "a", "SKILL.md">>}

Checkouts ==
    [tree : CheckoutTrees, listing : Listings, head : {<<SHA_A>>, <<>>}]

GivenSource == <<"o", "/", "o">>

InitFind ==
    /\ Idle
    /\ fnArg \in Checkouts
    /\ fnRes = NoCall

CallFindSkills ==
    /\ fnRes.op = "none"
    /\ fnRes' = Call("findSkills", findSkills(fnArg, GivenSource))
    /\ UNCHANGED <<fnArg, idleVars>>

NextFind == CallFindSkills

SpecFind == InitFind /\ [][NextFind]_vars

\* the directories that directly contain SKILL.md and are not inside a
\* .git or node_modules directory
SkillDirs(tree) ==
    {SubSeq(p, 1, Len(p) - 1) : p \in {q \in DOMAIN tree :
        /\ q[Len(q)] = "SKILL.md"
        /\ \A i \in 1..(Len(q) - 1) : q[i] \notin {".git", "node_modules"}}}

\* the path of a directory relative to the root, written with "/"
Slashed(d) ==
    IF d = <<>> THEN <<".">>
    ELSE [i \in 1..(2 * Len(d) - 1) |-> IF i % 2 = 1 THEN d[(i + 1) \div 2] ELSE "/"]

(* C17: findSkills returns exactly one result for every directory that     *)
(* directly contains SKILL.md and is not inside .git or node_modules, at   *)
(* any depth, the root included; the name is the last segment of the path  *)
(* ('.' for the root), the path is relative with '/' separators, and every *)
(* result carries the HEAD of the checkout and the given source.           *)
C17_AllSkillDirsFound ==
    (fnRes.op = "findSkills" /\ fnArg.head # <<>>) =>
        LET skills == fnRes.value.skills
            dirs == SkillDirs(fnArg.tree)
        IN /\ fnRes.value.err = OK
           /\ Len(skills) = Cardinality(dirs)
           /\ {skills[i].path : i \in 1..Len(skills)} = {Slashed(d) : d \in dirs}
           /\ \A i \in 1..Len(skills) :
                /\ skills[i].ref = fnArg.head[1]
                /\ skills[i].source = GivenSource
                /\ \E d \in dirs :
                     /\ skills[i].path = Slashed(d)
                     /\ skills[i].name = IF d = <<>> THEN <<".">> ELSE <<d[Len(d)]>>

\* a manifest at the root and one two directories down
C17_Witness ==
    /\ fnRes.op = "findSkills"
    /\ fnArg.head # <<>>
    /\ DOMAIN fnArg.tree = {<<"SKILL.md">>, <<"a", "a", "SKILL.md">>}
    /\ Len(fnRes.value.skills) = 2
    /\ \E i \in 1..2 : fnRes.value.skills[i].name = <<".">>
    /\ \E i \in 1..2 : fnRes.value.skills[i].path = <<"a", "/", "a">>

---------------------------------------------------------------------------
(* computeSkillHash on a directory tree (installer.ts 15-37).              *)
(* The bytes fed to the hash are a tuple of pieces of text: "file:", the   *)
(* names, "/", the newline "\n" and the byte "x".  No piece is the prefix  *)
(* of another, so two tuples are equal exactly when the byte streams are.  *)
(* A file's content is a tuple of the same pieces.                         *)

\* the names of the model in the order of their UTF-16 code units
CodeUnitOrder == <<".skills-lock", "a", "b", "d">>

RECURSIVE Keep(_, _)
\* the names of order that occur in entries, in that order
Keep(order, entries) ==
    IF order = <<>>
    THEN <<>>
    ELSE IF \E i \in 1..Len(entries) : entries[i] = Head(order)
         THEN <<Head(order)>> \o Keep(Tail(order), entries)
         ELSE Keep(Tail(order), entries)

\* the listing is used as the file system returned it
Sort_AsListed(entries) == entries

\* entries.sort()
Sort(entries) == Keep(CodeUnitOrder, entries)

RECURSIVE walk(_, _, _, _)
RECURSIVE WalkHash(_, _, _, _, _)

\* installer.ts 20-32: the loop over the sorted entries of dir; the result
\* is what the loop feeds to the hash
WalkHash(tree, dir, prefix, entries, listing) ==
    IF entries = <<>>
    THEN <<>>
    ELSE LET entry == Head(entries)
             fullPath == Append(dir, entry)
             relPath == IF prefix # <<>> THEN prefix \o <<"/", entry>> ELSE <<entry>>
             fed == IF entry = ".skills-lock"
                    THEN <<>>
                    ELSE IF IsDirectory(tree, fullPath)
                    THEN walk(tree, fullPath, relPath, listing)
                    ELSE <<"file:">> \o relPath \o <<"\n">> \o tree[fullPath] \o <<"\n">>
         IN fed \o WalkHash(tree, dir, prefix, Tail(entries), listing)

\* installer.ts 18-33
walk(tree, dir, prefix, listing) ==
    WalkHash(tree, dir, prefix, Sort(readdir(tree, dir, listing)), listing)

\* hash.digest("hex") of the bytes fed: a digest stands for the bytes it
\* was computed from (SHA-256 taken as collision free)
Digest(bytes) == bytes

\* installer.ts 15-37 on the tree of the skill directory
computeSkillHashOfTree(tree, listing) ==
    <<"sha256:">> \o Digest(walk(tree, <<>>, <<>>, listing))

MaxChunks == 1

\* what file contents are made of: a byte, and a line break followed by
\* the line "file:b"
ContentChunks == {<<"x">>, <<"\n", "file:", "b", "\n">>}

RECURSIVE ContentsUpTo(_)
ContentsUpTo(k) ==
    IF k = 0
    THEN {<<>>}
    ELSE ContentsUpTo(k - 1) \cup {c \o chunk : c \in ContentsUpTo(k - 1), chunk \in ContentChunks}

FileContents == ContentsUpTo(MaxChunks)

\* the files a skill directory may hold: two at the root, the sidecar, and
\* in a subdirectory a file and a file named like the sidecar
SkillPaths ==
    {<<"a">>, <<"b">>, <<".skills-lock">>, <<"d", "a">>, <<"d", ".skills-lock">>}

SkillTrees == UNION {[S -> FileContents] : S \in SUBSET SkillPaths}

\* every order in which a file system may list the names of a directory
AllListings ==
    {q \in [1..Len(CodeUnitOrder) -> {CodeUnitOrder[i] : i \in 1..Len(CodeUnitOrder)}] :
        \A i, j \in 1..Len(CodeUnitOrder) : i # j => q[i] # q[j]}

InitHash ==
    /\ Idle
    /\ fnArg \in [tree : SkillTrees,
                   listing : {CodeUnitOrder, <<"d", "b", "a", ".skills-lock">>}]
    /\ fnRes = NoCall

CallComputeSkillHash ==
    /\ fnRes.op = "none"
    /\ fnRes' = Call("computeSkillHash", computeSkillHashOfTree(fnArg.tree, fnArg.listing))
    /\ UNCHANGED <<fnArg, idleVars>>

NextHash == CallComputeSkillHash

SpecHash == InitHash /\ [][NextHash]_vars

Sidecar == <<".skills-lock">>

\* the tree without its sidecar
WithoutSidecar(tree) == [p \in DOMAIN tree \ {Sidecar} |-> tree[p]]

\* the trees that differ from tree at most in the sidecar
SidecarVariants(tree) ==
    {WithoutSidecar(tree)}
    \cup {[p \in (DOMAIN tree) \cup {Sidecar} |->
             IF p = Sidecar THEN c ELSE tree[p]] : c \in FileContents}

(* C18: computeSkillHash is deterministic and blind to the sidecar: on an  *)
(* unchanged tree it returns the same value whatever the order in which    *)
(* the file system lists the entries, and two trees that differ only in    *)
(* the presence or the contents of .skills-lock have the same hash.        *)
C18_HashDeterministic ==
    fnRes.op = "computeSkillHash" =>
        /\ \A listing \in AllListings :
              computeSkillHashOfTree(fnArg.tree, listing) = fnRes.value
        /\ \A other \in SidecarVariants(fnArg.tree), listing \in AllListings :
              computeSkillHashOfTree(other, listing) = fnRes.value

\* a tree with two files at the root, a file in a subdirectory and a
\* sidecar, listed in descending order
C18_Witness ==
    /\ fnRes.op = "computeSkillHash"
    /\ DOMAIN fnArg.tree = {<<"a">>, <<"b">>, <<"d", "a">>, Sidecar}
    /\ fnArg.tree[Sidecar] # <<>>
    /\ fnArg.listing = <<"d", "b", "a", ".skills-lock">>
    /\ fnRes.value = <<"sha256:", "file:", "a", "\n">> \o fnArg.tree[<<"a">>]
                        \o <<"\n", "file:", "b", "\n">> \o fnArg.tree[<<"b">>]
                        \o <<"\n", "file:", "d", "/", "a", "\n">> \o fnArg.tree[<<"d", "a">>]
                        \o <<"\n">>

\* the (relative path, content) pairs of the regular files of a tree, a
\* file named .skills-lock left out wherever it is
HashedFiles(tree) ==
    {<<p, tree[p]>> : p \in {q \in DOMAIN tree : q[Len(q)] # ".skills-lock"}}

(* C19: two trees whose sets of (relative path, content) pairs of regular  *)
(* files differ, the sidecar left aside, feed different bytes to the hash. *)
C19_HashSeparatesTrees ==
    fnRes.op = "computeSkillHash" =>
        \A other \in SkillTrees :
            HashedFiles(other) # HashedFiles(fnArg.tree) =>
                computeSkillHashOfTree(other, fnArg.listing) # fnRes.value

---------------------------------------------------------------------------
(* The sidecar file .skills-lock (installer.ts 42-75).                     *)
(* A file is [kind, doc]: kind "absent" (ENOENT), "unreadable" (any other  *)
(* failure of readFile), "text" (bytes that JSON.parse rejects) or "json"  *)
(* with the document in doc.                                               *)

NoDoc == JScalar(Undef)

AbsentFile == [kind |-> "absent", doc |-> NoDoc]

JsonFile(doc) == [kind |-> "json", doc |-> doc]

\* installer.ts 47-52: the file writeSkillMetadata leaves
SidecarWritten(ref, integrity) ==
    JsonFile(JObject(<<Member("ref", JScalar(ref)),
                       Member("integrity", JScalar(integrity))>>))

\* installer.ts 63-64: [err, parsed]: what readFile and JSON.parse throw
\* (OK if nothing) and the parsed document
ReadAndParse(file) ==
    CASE file.kind = "absent" -> [err |-> <<"ENOENT">>, parsed |-> NoDoc]
      [] file.kind = "unreadable" -> [err |-> <<"EACCES">>, parsed |-> NoDoc]
      [] file.kind = "text" -> [err |-> <<"SyntaxError">>, parsed |-> NoDoc]
      [] OTHER -> [err |-> OK, parsed |-> file.doc]

\* only ref is looked at
HasStringFields_RefOnly(parsed) == Get(parsed, "ref").t = "string"

\* installer.ts 66-67: typeof parsed?.ref === "string" &&
\* typeof parsed?.integrity === "string"
HasStringFields(parsed) ==
    /\ Get(parsed, "ref").t = "string"
    /\ Get(parsed, "integrity").t = "string"

\* installer.ts 59-75: [err, meta]: the error that leaves the function (OK:
\* none) and the value returned, <<>> for null
readSkillMetadata(file) ==
    LET r == ReadAndParse(file)
    IN IF r.err # OK
       THEN [err |-> OK, meta |-> <<>>]
       ELSE IF HasStringFields(r.parsed)
            THEN [err |-> OK,
                  meta |-> <<SkillMetadata(ScalarOf(Get(r.parsed, "ref")),
                                           ScalarOf(Get(r.parsed, "integrity")))>>]
            ELSE [err |-> OK, meta |-> <<>>]

\* values a sidecar may hold for a field: two strings, a number, null
SidecarValues == {Str(SHA_A), H(1), Num(1), Null}

\* the members of a sidecar object: each of ref, integrity and a foreign
\* key absent or present with any value, and a ref given twice
SidecarMembers ==
    {r \o i \o x :
        r \in {<<>>} \cup {<<Member("ref", JScalar(v))>> : v \in SidecarValues},
        i \in {<<>>} \cup {<<Member("integrity", JScalar(v))>> : v \in SidecarValues},
        x \in {<<>>, <<Member("source", JScalar(Str(<<"o">>)))>>}}
    \cup {<<Member("ref", JScalar(Str(SHA_A))), Member("integrity", JScalar(H(1))),
            Member("ref", JScalar(Num(1)))>>,
          <<Member("ref", JScalar(Num(1))), Member("integrity", JScalar(H(1))),
            Member("ref", JScalar(Str(SHA_B)))>>}

SidecarFiles ==
    {AbsentFile, [kind |-> "unreadable", doc |-> NoDoc], [kind |-> "text", doc |-> NoDoc]}
    \cup {JsonFile(JScalar(v)) : v \in {Null, Num(1), Str(<<"ref">>)}}
    \cup {JsonFile([t |-> "array", v |-> <<>>, members |-> <<>>])}
    \cup {JsonFile(JObject(m)) : m \in SidecarMembers}

InitSidecar ==
    /\ Idle
    /\ fnArg = AbsentFile
    /\ fnRes = NoCall

\* writeSkillMetadata(skillDir, ref, integrity)
CallWriteSkillMetadata ==
    /\ \E ref \in {SHA_A, SHA_B}, c \in Contents :
        /\ fnArg' = SidecarWritten(Str(ref), H(c))
        /\ fnRes' = Call("writeSkillMetadata", [err |-> OK, meta |-> <<>>])
    /\ UNCHANGED idleVars

\* someone else creates, edits, truncates, protects or deletes the file
EditSidecar ==
    /\ \E file \in SidecarFiles :
        /\ fnArg' = file
        /\ fnRes' = NoCall
    /\ UNCHANGED idleVars

CallReadSkillMetadata ==
    /\ fnRes.op # "readSkillMetadata"
    /\ fnRes' = Call("readSkillMetadata", readSkillMetadata(fnArg))
    /\ UNCHANGED <<fnArg, idleVars>>

NextSidecar == CallWriteSkillMetadata \/ EditSidecar \/ CallReadSkillMetadata

SpecSidecar == InitSidecar /\ [][NextSidecar]_vars

\* the value the document gives key k: that of the last member named k
LastValue(doc, k) ==
    LET at == {i \in 1..Len(doc.members) : doc.members[i].k = k}
    IN IF at = {} THEN <<>>
       ELSE <<doc.members[CHOOSE i \in at : \A j \in at : j <= i].val>>

\* the file exists, parses, and gives strings for ref and integrity
GoodSidecar(file) ==
    /\ file.kind = "json"
    /\ file.doc.t = "object"
    /\ LastValue(file.doc, "ref") # <<>>
    /\ LastValue(file.doc, "ref")[1].t = "string"
    /\ LastValue(file.doc, "integrity") # <<>>
    /\ LastValue(file.doc, "integrity")[1].t = "string"

(* C20: readSkillMetadata never fails; it returns the sidecar's ref and    *)
(* integrity exactly when the file exists, parses and holds strings for    *)
(* both, and null when the file is absent, unreadable, unparsable, or a    *)
(* field is missing or not a string.                                       *)
C20_ReadNeverFails ==
    fnRes.op = "readSkillMetadata" =>
        /\ fnRes.value.err = OK
        /\ GoodSidecar(fnArg) =>
              /\ Len(fnRes.value.meta) = 1
              /\ fnRes.value.meta[1].ref.v = LastValue(fnArg.doc, "ref")[1].v
              /\ fnRes.value.meta[1].integrity.v = LastValue(fnArg.doc, "integrity")[1].v
        /\ ~GoodSidecar(fnArg) => fnRes.value.meta = <<>>

\* a sidecar with a string ref and a number for integrity reads as null
C20_Witness ==
    /\ fnRes.op = "readSkillMetadata"
    /\ fnArg.kind = "json"
    /\ fnArg.doc.t = "object"
    /\ LastValue(fnArg.doc, "ref") = <<JScalar(Str(SHA_A))>>
    /\ LastValue(fnArg.doc, "integrity") = <<JScalar(Num(1))>>
    /\ fnRes.value = [err |-> OK, meta |-> <<>>]

---------------------------------------------------------------------------
(* remove (cli.ts 180-190)                                                 *)

\* names every object inherits from Object.prototype
ObjectPrototype == {"toString", "constructor"}

\* the lookup finds nothing
HasTruthyProperty_Never(skills, name) == FALSE

\* obj[name] is truthy: an own property (an entry is an object) or an
\* inherited one (a function)
HasTruthyProperty(skills, name) ==
    name \in Names(skills.ents) \/ name \in ObjectPrototype

\* delete obj[name]: an own property goes, anything else is left alone
DeleteProperty(ents, name) ==
    IF name \in Names(ents)
    THEN SubSeq(ents, 1, IndexOf(ents, name) - 1)
             \o SubSeq(ents, IndexOf(ents, name) + 1, Len(ents))
    ELSE ents

RemoveNames == SkillNames \cup {"toString"}

\* cli.ts 181-186
StartRemove ==
    /\ pc = "idle"
    /\ \E skill \in RemoveNames :
        LET r == readLockfile(lockDisk)
            edited == [r.value EXCEPT !.skills.ents = DeleteProperty(@, skill)]
            w == writeLockfile(edited, lockDisk)
        IN /\ cmd' = [name |-> "remove", force |-> FALSE, skill |-> skill]
           /\ IF r.err # OK
              THEN Die("invalid lockfile") /\ UNCHANGED <<lockfile, lockDisk, calls>>
              ELSE IF r.value # NoLockfile /\ HasTruthyProperty(r.value.skills, skill)
                   THEN IF w.err # OK
                        THEN Die("invalid lockfile")
                             /\ UNCHANGED <<lockfile, lockDisk, calls>>
                        ELSE /\ lockfile' = edited
                             /\ lockDisk' = w.disk
                             /\ calls' = Append(calls, WriteCall(skill))
                             /\ pc' = "remove: run"
                             /\ out' = Running
                   ELSE /\ lockfile' = r.value
                        /\ pc' = "remove: run"
                        /\ out' = Running
                        /\ UNCHANGED <<lockDisk, calls>>
    /\ UNCHANGED <<skillsDir, tmpDirs, tmpCount, skillsCliChecked, work,
                   startDir, installedMap, idx, repoDir, latestRef, count,
                   skipped, history, lfObj, lfRes, lfWritten, fnArg, fnRes,
                   report, checkout, pinned>>

\* the external remover takes the directory of the skill away
Removed(dirs, name) ==
    IF name \in DOMAIN dirs THEN [dirs EXCEPT ![name] = NotInstalled] ELSE dirs

\* cli.ts 188-189 with installer.ts 145-152: removeSkill(skillName)
RemoveRun ==
    /\ pc = "remove: run"
    /\ \E o \in {"ok", "remove failed"} \cup CliOutcomes :
        IF o = "cli missing"
        THEN /\ Die("The 'skills' CLI is not available")
             /\ UNCHANGED <<skillsDir, skillsCliChecked, calls>>
        ELSE /\ skillsCliChecked' = TRUE
             /\ calls' = Append(calls, [op |-> "remove", name |-> cmd.skill,
                                        ref |-> Undef, ok |-> (o = "ok")])
             /\ IF o = "ok"
                THEN /\ skillsDir' = Removed(skillsDir, cmd.skill)
                     /\ pc' = "done"
                     /\ out' = [msg |-> "Removed", code |-> 0]
                ELSE /\ Die("remove failed")
                     /\ skillsDir' = skillsDir
    /\ UNCHANGED <<lockDisk, tmpDirs, tmpCount, cmd, lockfile, work, startDir,
                   installedMap, idx, repoDir, latestRef, count, skipped,
                   history, lfObj, lfRes, lfWritten, fnArg, fnRes,
                   report, checkout, pinned>>

---------------------------------------------------------------------------
(* add (cli.ts 119-175)                                                    *)

AddNames == SkillNames \cup {""}

\* a shorthand and a tree URL copied from the browser
AddSources ==
    {<<"o", "/", "o">>,
     <<"https://", "gitlab.com", "/", "o", "/", "-", "/", "tree", "/", "o">>}

\* the files of a tree, all empty
TreeOf(paths) == [p \in paths |-> <<>>]

\* what a clone of the source may hold: both skills under skills/, the pdf
\* skill in two places, no manifest at all, and a repository without commits
AddCheckouts ==
    {[tree |-> TreeOf({<<"skills", "pdf", "SKILL.md">>, <<"skills", "xlsx", "SKILL.md">>}),
      listing |-> <<"SKILL.md", "pdf", "skills", "xlsx">>, head |-> <<SHA_A>>],
     [tree |-> TreeOf({<<"pdf", "SKILL.md">>, <<"skills", "pdf", "SKILL.md">>}),
      listing |-> <<"skills", "pdf", "SKILL.md">>, head |-> <<SHA_C>>],
     [tree |-> TreeOf({<<"pdf", "SKILL.md">>, <<"skills", "pdf", "SKILL.md">>}),
      listing |-> <<"pdf", "skills", "SKILL.md">>, head |-> <<SHA_C>>],
     [tree |-> TreeOf({<<"README.md">>}),
      listing |-> <<"README.md">>, head |-> <<SHA_A>>],
     [tree |-> TreeOf({<<"skills", "pdf", "SKILL.md">>}),
      listing |-> <<"SKILL.md", "pdf", "skills">>, head |-> <<>>]}

\* cli.ts 120-133
StartAdd ==
    /\ pc = "idle"
    /\ \E source \in AddSources, skill \in AddNames, force \in BOOLEAN :
        LET existingLockfile == readLockfile(lockDisk)
        IN /\ cmd' = [name |-> "add", force |-> force, skill |-> skill,
                      source |-> source]
           /\ IF skill = ""
              THEN Die("Please specify a skill name with --skill <name>")
                   /\ UNCHANGED pinned
              ELSE IF existingLockfile.err # OK
              THEN Die("invalid lockfile")
                   /\ UNCHANGED pinned
              ELSE IF /\ existingLockfile.value # NoLockfile
                      /\ HasTruthyProperty(existingLockfile.value.skills, skill)
                      /\ ~force
              THEN /\ pc' = "done"
                   /\ out' = [msg |-> "already in skills.lock", code |-> 0]
                   /\ UNCHANGED pinned
              ELSE /\ pc' = "add: resolveRepo"
                   /\ out' = [msg |-> "Resolving", code |-> 0]
                   /\ pinned' = [NoPin EXCEPT !.source = <<Str(expandSource(source))>>]
    /\ UNCHANGED <<lockDisk, skillsDir, tmpDirs, tmpCount, skillsCliChecked,
                   lockfile, work, startDir, installedMap, idx, repoDir,
                   latestRef, count, skipped, calls, history, lfObj, lfRes,
                   lfWritten, fnArg, fnRes, report, checkout>>

\* cli.ts 134 with resolver.ts 59-74: resolveRepo: mkdtemp, shallow clone
AddResolveRepo ==
    /\ pc = "add: resolveRepo"
    /\ tmpCount' = tmpCount + 1
    /\ tmpDirs' = tmpDirs \cup {tmpCount + 1}
    /\ \E o \in {"ok", "clone failed"}, repo \in AddCheckouts :
        IF o = "ok"
        THEN /\ repoDir' = <<tmpCount + 1>>
             /\ checkout' = <<repo>>
             /\ pc' = "add: find"
             /\ out' = out
        ELSE /\ Die(o)
             /\ UNCHANGED <<repoDir, checkout>>
    /\ UNCHANGED <<lockDisk, skillsDir, skillsCliChecked, cmd, lockfile, work,
                   startDir, installedMap, idx, latestRef, count, skipped,
                   calls, history, lfObj, lfRes, lfWritten, fnArg, fnRes,
                   report, pinned>>

RECURSIVE Find(_, _)
\* skills.find((s) => s.name === skillName): <<>> or <<the first match>>
Find(skills, skillName) ==
    IF skills = <<>>
    THEN <<>>
    ELSE IF Head(skills).name = <<skillName>>
         THEN <<Head(skills)>>
         ELSE Find(Tail(skills), skillName)

\* cli.ts 137-152: resolveRef, findSkills and the match, inside try; a throw
\* runs the finally clause (155), cleanupClone
AddFindSkill ==
    /\ pc = "add: find"
    /\ LET ref == resolveRef(checkout[1].head)
           found == findSkills(checkout[1], pinned.source[1].v)
           matched == Find(found.skills, cmd.skill)
       IN IF ref.err # OK \/ found.err # OK
          THEN /\ Die("No commits found")
               /\ tmpDirs' = cleanupClone(tmpDirs, repoDir[1])
               /\ repoDir' = <<>>
               /\ UNCHANGED pinned
          ELSE IF matched = <<>>
          THEN /\ Die(IF found.skills = <<>>
                      THEN "No SKILL.md files found"
                      ELSE "Skill not found. Available skills")
               /\ tmpDirs' = cleanupClone(tmpDirs, repoDir[1])
               /\ repoDir' = <<>>
               /\ UNCHANGED pinned
          ELSE /\ pinned' = [pinned EXCEPT !.ref = <<Str(ref.hash)>>,
                                           !.path = <<Str(matched[1].path)>>]
               /\ pc' = "add: install"
               /\ out' = [msg |-> "Installing", code |-> 0]
               /\ UNCHANGED <<tmpDirs, repoDir>>
    /\ UNCHANGED <<lockDisk, skillsDir, tmpCount, skillsCliChecked, cmd, lockfile,
                   work, startDir, installedMap, idx, latestRef, count, skipped,
                   calls, history, lfObj, lfRes, lfWritten, fnArg, fnRes,
                   report, checkout>>

\* the installer is pointed at the upstream repository (no directory of
\* this run), not at the clone
InstallSource_Upstream(source, skillPath) == [dir |-> <<0>>, path |-> skillPath]

\* installer.ts 132: what the external installer is pointed at when no ref
\* is given: join(source, skillPath)
InstallSource(source, skillPath) == [dir |-> source, path |-> skillPath]

\* cli.ts 153-156 with installer.ts 114, 131-138: installSkill(repoDir,
\* skillName, undefined, skillPath), then the finally clause
AddInstall ==
    /\ pc = "add: install"
    /\ \E o \in {"ok", "install failed"} \cup CliOutcomes, c \in Contents :
        IF o = "cli missing"
        THEN /\ Die("The 'skills' CLI is not available")
             /\ UNCHANGED <<skillsCliChecked, skillsDir, calls>>
        ELSE /\ skillsCliChecked' = TRUE
             /\ calls' = Append(calls,
                                [op |-> "install", name |-> cmd.skill, ref |-> Undef,
                                 ok |-> (o = "ok"),
                                 from |-> InstallSource(repoDir, pinned.path[1])])
             /\ IF o = "ok"
                THEN /\ skillsDir' = [skillsDir EXCEPT ![cmd.skill] = Installed(c, <<>>)]
                     /\ pc' = "add: hash"
                     /\ out' = out
                ELSE /\ Die("install failed")
                     /\ skillsDir' = skillsDir
    /\ tmpDirs' = cleanupClone(tmpDirs, repoDir[1])
    /\ repoDir' = <<>>
    /\ UNCHANGED <<lockDisk, tmpCount, cmd, lockfile, work, startDir,
                   installedMap, idx, latestRef, count, skipped, history,
                   lfObj, lfRes, lfWritten, fnArg, fnRes, report, checkout, pinned>>

\* cli.ts 159-161: hash the installed directory, write the sidecar
AddRecordMetadata ==
    /\ pc = "add: hash"
    /\ \E o \in FsOutcomes :
        IF o # "ok"
        THEN /\ Die(o)
             /\ UNCHANGED skillsDir
        ELSE /\ skillsDir' = [skillsDir EXCEPT ![cmd.skill] =
                                writeSkillMetadata(@, pinned.ref[1],
                                                   computeSkillHash(skillsDir[cmd.skill]))]
             /\ pc' = "add: persist"
             /\ out' = out
    /\ UNCHANGED <<lockDisk, tmpDirs, tmpCount, skillsCliChecked, cmd, lockfile,
                   work, startDir, installedMap, idx, repoDir, latestRef, count,
                   skipped, calls, history, lfObj, lfRes, lfWritten, fnArg,
                   fnRes, report, checkout, pinned>>

\* cli.ts 164: (await readLockfile()) ?? { version: 1, skills: {} }
EmptyLockfile == MkLockfile(Num(1), Skills(<<>>))

\* cli.ts 163-174: read or create the lockfile, set the entry, write
AddPersist ==
    /\ pc = "add: persist"
    /\ LET r == readLockfile(lockDisk)
           base == IF r.value = NoLockfile THEN EmptyLockfile ELSE r.value
           integrity == computeSkillHash(skillsDir[cmd.skill])
           edited == [base EXCEPT !.skills.ents =
                        SetEntry(@, cmd.skill,
                                 Entry(pinned.source[1], pinned.path[1],
                                       pinned.ref[1], integrity))]
           w == writeLockfile(edited, lockDisk)
       IN IF r.err # OK
          THEN Die("invalid lockfile") /\ UNCHANGED <<lockfile, lockDisk, calls>>
          ELSE IF w.err # OK
          THEN Die("invalid lockfile") /\ UNCHANGED <<lockfile, lockDisk, calls>>
          ELSE /\ lockfile' = edited
               /\ lockDisk' = w.disk
               /\ calls' = Append(calls, WriteCall(cmd.skill))
               /\ pc' = "done"
               /\ out' = [msg |-> "Added to skills.lock", code |-> 0]
    /\ UNCHANGED <<skillsDir, tmpDirs, tmpCount, skillsCliChecked, cmd, work,
                   startDir, installedMap, idx, repoDir, latestRef, count,
                   skipped, history, lfObj, lfRes, lfWritten, fnArg, fnRes,
                   report, checkout, pinned>>

\* the commands that edit the lockfile by name
NextEdit ==
    \/ StartRemove
    \/ RemoveRun
    \/ StartAdd
    \/ AddResolveRepo
    \/ AddFindSkill
    \/ AddInstall
    \/ AddRecordMetadata
    \/ AddPersist

SpecEdit == InitCLI /\ [][NextEdit]_vars

---------------------------------------------------------------------------
(* The scanner and the check command (Spec).                               *)

\* install and check have read a lockfile and scanned the skill directories
Scanned == cmd.name \in {"install", "check"} /\ lockfile # NoLockfile

(* C21: the scanner returns a record for every installed skill directory,  *)
(* whose metadata field is the content of the directory's sidecar when it  *)
(* has a well-formed one and is undefined when it has none.                *)
C21_ScannerMetadata ==
    Scanned =>
        \A n \in SkillNames :
            startDir[n].installed =>
                /\ n \in DOMAIN installedMap
                /\ MetadataOf(installedMap[n]) = startDir[n].meta

---------------------------------------------------------------------------
\* the files of entry i's skill were edited after it was installed: the
\* sidecar still records the entry's ref and integrity, the content hash of
\* the directory is another one
Edited0(i) ==
    /\ Installed0(i)
    /\ Meta0(i) # <<>>
    /\ Meta0(i)[1].ref = work[i].entry.ref
    /\ Truthy(work[i].entry.integrity)
    /\ Meta0(i)[1].integrity = work[i].entry.integrity
    /\ computeSkillHash(startDir[work[i].name]) # work[i].entry.integrity

(* C22: a skill whose files were edited on disk after installation is      *)
(* reported by check as modified (its content hash differs from the        *)
(* entry's integrity), and a non-forced install reinstalls every skill     *)
(* whose installed ref or whose file content has drifted from the lock     *)
(* entry: the remover runs, then the installer at the entry's ref.         *)
C22_EditedIsRestored ==
    /\ (cmd.name = "check" /\ pc = "done") =>
          \A i \in Entries : Edited0(i) => Has(report.modified, work[i].name)
    /\ (InstallPass /\ ~cmd.force) =>
          \A i \in Entries :
              ((WrongRef0(i) \/ Edited0(i)) /\ Processed(i)) =>
                  /\ history[i].did = "installed"
                  /\ \E k \in InstallCalls(work[i].name) :
                        /\ calls[k].ok
                        /\ calls[k].ref = work[i].entry.ref
                        /\ \E j \in RemoveCalls(work[i].name) : j < k /\ calls[j].ok

---------------------------------------------------------------------------
\* entry i is installed with a sidecar of the entry's ref and, when the
\* entry pins an integrity, files of that content hash
Verified0(i) ==
    /\ Installed0(i)
    /\ Meta0(i) # <<>>
    /\ Meta0(i)[1].ref = work[i].entry.ref
    /\ Truthy(work[i].entry.integrity) =>
          computeSkillHash(startDir[work[i].name]) = work[i].entry.integrity

\* the categories of check in which skill n is listed
CategoriesOf(n) ==
    {c \in {"missing", "unverified", "modified"} : Has(report[c], n)}
    \cup {c \in {"wrongRef"} : \E k \in 1..Len(report.wrongRef) :
                                   report.wrongRef[k].name = n}

(* C23: check ends with exit code 0 and 'All skills verified.' exactly     *)
(* when every locked skill is installed with a sidecar whose ref is the    *)
(* entry's ref and, if the entry pins an integrity, with files of that     *)
(* content hash, and no installed skill is missing from the lockfile;      *)
(* otherwise it ends with exit code 1; a locked skill is never listed in   *)
(* more than one of missing, unverified, wrong ref and modified.           *)
C23_CheckVerdict ==
    cmd.name = "check" =>
        /\ pc = "done" =>
              /\ out.code \in {0, 1}
              /\ out.code = 0 <=>
                    /\ \A i \in Entries : Verified0(i)
                    /\ \A n \in SkillNames :
                          startDir[n].installed => n \in Names(work)
              /\ out.code = 0 <=> out.msg = "All skills verified."
        /\ pc = "failed" => out.code = 1
        /\ \A i \in Entries : Cardinality(CategoriesOf(work[i].name)) <= 1

---------------------------------------------------------------------------
(* add and remove (SpecEdit).                                              *)

AddSucceeded == cmd.name = "add" /\ pc = "done" /\ out.msg = "Added to skills.lock"

\* the positions in calls of the installer runs
InstallerRuns == {k \in 1..Len(calls) : calls[k].op = "install"}

(* C24: when add succeeds, the ref written to the lockfile for the skill   *)
(* is the HEAD commit of the clone the external installer was run against; *)
(* the entry's path is a directory of that clone that holds a manifest and *)
(* is named like the skill, and it is the path the installer was given;    *)
(* its source is expandSource of the source given; its integrity and the   *)
(* sidecar's integrity are the content hash of the installed directory,    *)
(* and the sidecar's ref is the entry's ref.                               *)
C24_AddPinsWhatWasInstalled ==
    AddSucceeded =>
        LET n == cmd.skill
            e == EntryOf(DiskLockfile, n)
        IN /\ n \in Names(DiskLockfile.skills.ents)
           /\ Cardinality(InstallerRuns) = 1
           /\ \A k \in InstallerRuns :
                 /\ calls[k].ok
                 /\ calls[k].name = n
                 /\ calls[k].from.dir = <<tmpCount>>
                 /\ Str(calls[k].from.path.v) = e.path
           /\ tmpCount = 1
           /\ e.ref = Str(checkout[1].head[1])
           /\ \E d \in SkillDirs(checkout[1].tree) :
                 /\ d # <<>>
                 /\ d[Len(d)] = n
                 /\ e.path = Str(Slashed(d))
           /\ e.source = Str(expandSource(cmd.source))
           /\ e.integrity = computeSkillHash(skillsDir[n])
           /\ skillsDir[n].installed
           /\ skillsDir[n].meta = <<SkillMetadata(e.ref, e.integrity)>>

\* a forced add re-pinned pdf, which the lockfile held at another ref, from
\* a clone that has the skill in two places
C24_Witness ==
    /\ AddSucceeded
    /\ cmd.force
    /\ cmd.skill = "pdf"
    /\ checkout[1].head = <<SHA_C>>
    /\ Cardinality(SkillDirs(checkout[1].tree)) = 2
    /\ EntryOf(DiskLockfile, "pdf").path = Str(<<"pdf">>)
    /\ EntryOf(DiskLockfile, "pdf").ref = Str(SHA_C)
    /\ "xlsx" \in Names(DiskLockfile.skills.ents)

---------------------------------------------------------------------------
(* C25: add without --force for a name the lockfile already holds changes  *)
(* nothing: the lockfile is left as it is, no clone is made, neither the   *)
(* installer nor the remover runs, the skill directories are untouched,    *)
(* and the command ends with exit code 0.                                  *)
C25_AddExistingIsNoOp ==
    [][(/\ pc = "idle"
        /\ cmd'.name = "add"
        /\ ~cmd'.force
        /\ cmd'.skill \in Names(DiskLockfile.skills.ents))
       => /\ pc' = "done"
          /\ out'.code = 0
          /\ lockDisk' = lockDisk
          /\ tmpDirs' = tmpDirs /\ tmpCount' = tmpCount
          /\ calls' = calls /\ calls = <<>>
          /\ skillsDir' = skillsDir]_vars

\* add without --force stopped at a name the lockfile holds
C25_Witness ==
    /\ cmd.name = "add" /\ ~cmd.force
    /\ pc = "done"
    /\ out.msg = "already in skills.lock"
    /\ cmd.skill \in Names(DiskLockfile.skills.ents)
    /\ calls = <<>> /\ tmpCount = 0

---------------------------------------------------------------------------
\* the remover ran for skill n and succeeded
RemoverRan(n) == \E k \in RemoveCalls(n) : calls[k].ok

(* C26: remove of a name the lockfile holds takes that entry out of the    *)
(* file and leaves every other entry as it was; remove of a name the       *)
(* lockfile does not hold does not write the file; in both cases a remove  *)
(* that ends well has invoked the external remover for the name.           *)
C26_RemoveFrame ==
    [][/\ (pc = "idle" /\ cmd'.name = "remove") =>
            LET n == cmd'.skill
                old == DiskLockfile
                new == DiskLockfile'
            IN /\ n \in Names(old.skills.ents) =>
                     /\ pc' # "failed"
                     /\ Names(new.skills.ents) = Names(old.skills.ents) \ {n}
                     /\ \A m \in Names(new.skills.ents) :
                            EntryOf(new, m) = EntryOf(old, m)
               /\ n \notin Names(old.skills.ents) =>
                     /\ lockDisk' = lockDisk
                     /\ calls' = calls
       /\ (cmd.name = "remove" /\ pc = "remove: run") =>
            /\ lockDisk' = lockDisk
            /\ pc' = "done" => RemoverRan(cmd.skill)']_vars

---------------------------------------------------------------------------
\* entry i was installed on disk when the pass started and the pass has
\* reinstalled it (forced, or because of drift)
Reinstalled(i) == Processed(i) /\ Installed0(i) /\ history[i].did = "installed"

\* the ref the installer was last run at for skill n
InstalledRef(n) ==
    LET k == CHOOSE j \in InstallCalls(n) : \A l \in InstallCalls(n) : l <= j
    IN calls[k].ref

(* C27 as stated: after a forced or drift-triggered reinstall of an entry  *)
(* by install, the lockfile entry holds the ref that was installed and the *)
(* content hash that was computed.                                         *)
C27_EntryRefreshed ==
    InstallPass =>
        \A i \in Entries :
            Reinstalled(i) =>
                LET n == work[i].name
                IN /\ EntryOf(lockfile, n).ref = InstalledRef(n)
                   /\ EntryOf(lockfile, n).integrity = computeSkillHash(skillsDir[n])

(* C27, amended: install leaves the lockfile entry as it is, in memory and *)
(* in the file; after a forced or drift-triggered reinstall it is the      *)
(* sidecar that holds the entry's ref, which is the ref the installer ran  *)
(* at, and the content hash that was computed, and that hash equals the    *)
(* entry's integrity when the entry has one.                               *)
C27_SidecarRefreshed ==
    InstallPass =>
        /\ work # <<>> => (lockfile.skills.ents = work /\ DiskLockfile = lockfile)
        /\ \A i \in Entries :
              Reinstalled(i) =>
                  LET n == work[i].name
                      e == EntryOf(lockfile, n)
                      computedIntegrity == computeSkillHash(skillsDir[n])
                  IN /\ e = work[i].entry
                     /\ InstalledRef(n) = e.ref
                     /\ skillsDir[n].meta = <<SkillMetadata(e.ref, computedIntegrity)>>
                     /\ Truthy(e.integrity) => e.integrity = computedIntegrity

\* a finished pass that reinstalled, after drift, a skill whose entry has
\* no integrity: the sidecar has a hash and the entry still has none
C27_Witness ==
    /\ InstallPass /\ ~cmd.force /\ pc = "done"
    /\ \E i \in Entries :
          /\ Reinstalled(i)
          /\ WrongRef0(i)
          /\ ~Truthy(work[i].entry.integrity)
          /\ skillsDir[work[i].name].meta # <<>>
          /\ Truthy(skillsDir[work[i].name].meta[1].integrity)

---------------------------------------------------------------------------
\* an install or update run is under way
LoopPass == cmd.name \in {"install", "update"} /\ pc # "idle"

\* the skills of which the step changes the directory or for which it
\* runs the remover or the installer
StepTouches == {n \in SkillNames : Touched(n)' # Touched(n)}

\* the step makes or deletes a temporary checkout or writes the lockfile
StepWorks == tmpDirs' # tmpDirs \/ lockDisk' # lockDisk \/ calls' # calls

(* C28: install and update process the entries one after the other: every  *)
(* step that runs the remover or the installer, changes a skill directory, *)
(* makes or deletes a temporary checkout or writes the lockfile belongs to *)
(* the current entry, and all entries before it have completed their cycle *)
(* and none after it has begun; the loop moves to the next entry only with *)
(* no checkout left; so at most one temporary checkout exists at any time  *)
(* and a step runs at most one external command.                           *)
C28_StrictlySequential ==
    [][LoopPass =>
        /\ (StepTouches # {} \/ StepWorks) =>
              /\ idx \in Entries
              /\ idx' \in {idx, idx + 1}
              /\ StepTouches \subseteq {CurName}
              /\ Len(history) = idx - 1
              /\ \A j \in Entries : j > idx => Touched(work[j].name) = Touched(work[j].name)'
        /\ idx' # idx =>
              /\ idx' = idx + 1
              /\ Len(history') = idx /\ history'[idx].name = CurName
              /\ pc' \in {"classify", "resolve"}
              /\ tmpDirs' = {} /\ repoDir' = <<>>
        /\ Cardinality(tmpDirs) <= 1 /\ Cardinality(tmpDirs') <= 1
        /\ Len(calls') <= Len(calls) + 1]_vars

\* the installer is about to run from the checkout of the second entry,
\* after the first entry was installed and its checkout deleted
C28_Witness ==
    /\ LoopPass /\ pc = "exec"
    /\ idx = 2 /\ Len(work) = 2
    /\ history = <<[name |-> work[1].name, did |-> "installed"]>>
    /\ tmpDirs = {2} /\ repoDir = <<2>>
    /\ \E k \in InstallCalls(work[1].name) : calls[k].ok
    /\ InstallCalls(work[2].name) = {}

---------------------------------------------------------------------------
\* what a failed install pass leaves: exit code 1; the entries after the
\* failing one as they were, with no remover or installer call; the
\* entries before it as the pass left them, a reinstalled one with the
\* sidecar the pass wrote; no writeLockfile call
StoppedAtFailure ==
    /\ out.code = 1
    /\ \A k \in 1..Len(calls) : calls[k].op # "writeLockfile"
    /\ work # <<>> =>
          /\ idx \in Entries
          /\ Len(history) = idx - 1
          /\ \A j \in Entries :
                LET n == work[j].name
                IN /\ j > idx =>
                          /\ skillsDir[n] = startDir[n]
                          /\ RemoveCalls(n) = {} /\ InstallCalls(n) = {}
                   /\ (j < idx /\ history[j].did = "installed") =>
                          /\ skillsDir[n].installed
                          /\ skillsDir[n].meta =
                                <<SkillMetadata(work[j].entry.ref,
                                                computeSkillHash(skillsDir[n]))>>
                   /\ (j < idx /\ history[j].did = "skipped") =>
                          skillsDir[n] = startDir[n]

(* C29: an install pass stops at the first entry that fails: a failing     *)
(* remover, clone, checkout, manifest check, installer, hash or integrity  *)
(* comparison ends the run with exit code 1 and nothing happens after it;  *)
(* no later entry has been processed (no remover or installer call, its    *)
(* directory and sidecar as they were), the sidecars written for earlier   *)
(* entries are kept, and install never writes the lockfile.                *)
C29_InstallStopsAtFirstFailure ==
    [][cmd'.name = "install" =>
        /\ lockDisk' = lockDisk
        /\ pc # "failed"
        /\ out'.code = 1 => pc' = "failed"
        /\ (calls' # calls /\ ~calls'[Len(calls')].ok) => pc' = "failed"
        /\ pc' = "failed" => StoppedAtFailure']_vars

\* the pass failed the integrity comparison on its first entry and the
\* second entry, which is not installed, was left alone
C29_Witness ==
    /\ InstallPass /\ pc = "failed"
    /\ out.msg = "Integrity check failed"
    /\ idx = 1 /\ Len(work) = 2
    /\ ~Installed0(2)
    /\ ~skillsDir[work[2].name].installed
    /\ InstallCalls(work[2].name) = {}

---------------------------------------------------------------------------
\* for the current entry the remover has succeeded and, after it, the
\* installer at the latest ref
ReplacedAtLatest(n, ref) ==
    \E j \in RemoveCalls(n), k \in InstallCalls(n) :
        /\ j < k /\ calls[j].ok /\ calls[k].ok
        /\ calls[k].ref = ref

\* the sidecar of skill n records the ref and the integrity of entry e,
\* and that integrity is the hash of what is on disk
SidecarMatches(dirs, n, e) ==
    /\ dirs[n].installed
    /\ dirs[n].meta = <<SkillMetadata(e.ref, e.integrity)>>
    /\ e.integrity = computeSkillHash(dirs[n])

\* the lockfile calls of this run for skill n
WriteCalls(n) == {k \in 1..Len(calls) : calls[k].op = "writeLockfile" /\ calls[k].name = n}

(* C30: during update, an entry that differs from the one the run read,   *)
(* in memory or in the file, belongs to a skill for which the remover and, *)
(* after it, the installer at the latest ref have succeeded and whose      *)
(* sidecar records that entry's ref and integrity, the hash of what is on  *)
(* disk; the file never runs ahead of memory; after a failure that follows *)
(* the remover the file still holds the old ref of that skill; a skill     *)
(* whose upstream HEAD is its entry's ref gets no remover, no installer    *)
(* and no lockfile write, and its directory and entry stay as they were.   *)
C30_UpdateChangesEntryLast ==
    (cmd.name = "update" /\ pc # "idle" /\ work # <<>>) =>
        LET disk == DiskLockfile
        IN /\ Names(disk.skills.ents) = Names(lockfile.skills.ents)
           /\ \A n \in Names(disk.skills.ents) :
                 (\A i \in Entries : work[i].name # n) =>
                     EntryOf(disk, n) = EntryOf(lockfile, n)
           /\ \A i \in Entries :
                 LET n == work[i].name
                     old == work[i].entry
                     d == EntryOf(disk, n)
                     m == EntryOf(lockfile, n)
                 IN /\ m # old =>
                          /\ m.ref # old.ref
                          /\ ReplacedAtLatest(n, m.ref)
                          /\ SidecarMatches(skillsDir, n, m)
                    /\ d # old => d = m
                    /\ (pc = "failed" /\ i = idx /\ RemoveCalls(n) # {}) =>
                          d.ref = old.ref
                    /\ (Processed(i) /\ history[i].did = "up to date") =>
                          /\ RemoveCalls(n) = {} /\ InstallCalls(n) = {}
                          /\ WriteCalls(n) = {}
                          /\ skillsDir[n] = startDir[n]
                          /\ d = old /\ m = old

\* a bulk update that updated its first skill, whose sidecar and entry in
\* the file agree, and failed on the second after the remover and the
\* installer had run, leaving that entry in the file with its old ref
C30_Witness ==
    /\ cmd.name = "update" /\ cmd.skill = ""
    /\ pc = "failed" /\ out.msg = "sidecar write failed"
    /\ idx = 2 /\ Len(work) = 2
    /\ history[1].did = "updated"
    /\ EntryOf(DiskLockfile, work[1].name).ref # work[1].entry.ref
    /\ SidecarMatches(skillsDir, work[1].name, EntryOf(DiskLockfile, work[1].name))
    /\ ReplacedAtLatest(work[2].name, Str(latestRef[1]))
    /\ EntryOf(DiskLockfile, work[2].name) = work[2].entry

====
